---- MODULE Spec2Model ----
(***************************************************************************)
(* A model of the news-digest curation pipeline (masikonis/news-digest).   *)
(*                                                                         *)
(* Part 1: the feed ingestor and the incremental store of                  *)
(* src/src/rss_scraper.py: parse_rss_item / parse_rss_feed, the retry loop *)
(* of scrape_rss_feed, add_new_items, load_existing_data / backup_file /   *)
(* save_data and the ingestion run main().                                 *)
(* Part 2: the enricher of src/src/content_enricher.py                     *)
(* (enrich_weekly_news) on the same period file.                           *)
(* Part 3: the ranker of src/src/summary_generator.py                      *)
(* (evaluate_story_importance).                                            *)
(* Part 4: the deduplicator of src/src/summary_generator.py                *)
(* (deduplicate_news_items).                                               *)
(* Part 5: the digest run of src/src/news_digest.py (main) with            *)
(* generate_summaries_by_category.                                         *)
(* Part 6: two ingestion runs at the same time.                            *)
(*                                                                         *)
(* The specifications share the operators that model the functions:        *)
(*   SpecParse   the loop of parse_rss_feed over every feed <item> shape   *)
(*   SpecMerge   repeated add_new_items calls on a loaded batch            *)
(*   Spec        ingestion runs: load, scrape each feed with retries,      *)
(*               merge, save                                               *)
(*   SpecPeriod  ingestion runs and enrichment runs on one period file,    *)
(*               one run at a time                                         *)
(*   SpecRank    one call of evaluate_story_importance                     *)
(*   SpecDedup   a call of deduplicate_news_items and a call on its output *)
(*   SpecDigest  one digest run: settings, batch, categories, e-mail       *)
(*   SpecRace    two ingestion runs on one period file at the same time    *)
(***************************************************************************)
EXTENDS Integers, Sequences, FiniteSets, TLC

VARIABLES
    \* ---- parse_rss_feed (SpecParse) ----
    category,        \* the category argument of parse_rss_feed
    item,            \* the <item> element handed to parse_rss_item last
    parsed_item,     \* what parse_rss_item did with it
    feed_items,      \* the news_items list parse_rss_feed is building
    parse_pc,        \* "loop" | "returned" | "raised"
    \* ---- add_new_items (SpecMerge and Spec) ----
    existing_data,   \* the in-memory batch (a list of items)
    existing_ids,    \* the set of ids kept beside it
    news_items,      \* the list handed to add_new_items last
    new_items_count, \* what add_new_items returned last
    prev_data,       \* existing_data before the last add_new_items call
    prev_ids,        \* existing_ids before the last add_new_items call
    prev_count,      \* what the add_new_items call before the last one returned
    merge_pc,        \* SpecMerge: "build" | "called" | "called_again"
    \* ---- the ingestion run (Spec) ----
    file,            \* the period file news_<year>_<week>.json
    file_at_load,    \* the period file as the run's load found it
    bak,             \* the file beside it with the .bak suffix
    pc,              \* position of main()
    retries,         \* config retry_count
    feed,            \* index of the feed being scraped (configuration order)
    attempt,         \* loop variable of scrape_rss_feed
    fetches,         \* fetch_rss_feed calls made for the current feed
    sleeps,          \* time.sleep calls made for the current feed
    scraped,         \* per feed: how its scrape ended and what it returned
    error,           \* the exception that ended the run, if any
    runs,            \* ingestion runs started
    delivered,       \* ids of the items the feeds of this run have returned
    \* ---- the enrichment run (SpecPeriod) ----
    enrich_pc,       \* position of enrich_weekly_news
    enrich_items,    \* its news_items: the batch as loaded, marks added
    to_process,      \* the items of to_process the loop has not reached yet
    enrich_loaded,   \* the period file as the enrichment run's load found it
    enrich_runs,     \* enrichment runs started
    \* ---- evaluate_story_importance (SpecRank) ----
    stories,         \* the news_items argument
    percentage,      \* the percentage argument, in per cent
    min_stories,     \* the min_stories argument
    max_stories,     \* the max_stories argument
    response,        \* what model.invoke did
    result,          \* what the call came to
    invocations,     \* model.invoke calls made
    rank_pc,         \* "called" | "invoke" | "returned" | "raised"
    \* ---- deduplicate_news_items (SpecDedup) ----
    dedup_items,     \* the news_items argument of the first call
    use_semantic,    \* the use_semantic argument
    similar,         \* the pairs of titles similar_titles answers True for
    close,           \* the other pairs whose embeddings have cosine > 0.70
    unique_news,     \* what the last call returned
    prev_unique,     \* what the call before it returned
    embed_calls,     \* embeddings_model.embed_query calls made
    dedup_pc,        \* "called" | "returned" | "returned_again"
    \* ---- the digest run, news_digest.main (SpecDigest) ----
    environ,         \* the settings os.getenv finds
    folder,          \* what base_folder holds: the latest batch file, if any
    categorized_news,      \* the categories the loop has not reached yet
    summaries_by_category, \* the summaries collected so far
    gave_up,         \* the categories whose ranking or summary raised, and where
    batch_reads,     \* read_json_file calls made
    oracle_calls,    \* model.invoke calls made
    digest_error,    \* the exception that ended the run, if any
    posted,          \* requests.post calls made by send_email
    digest_pc,       \* position of main()
    \* ---- two ingestion runs on one period file (SpecRace) ----
    race_pc,         \* per run: position of main()
    race_data,       \* per run: its existing_data
    race_ids,        \* per run: its existing_ids
    race_feed,       \* per run: index of the feed it scrapes next
    race_log         \* the loads and saves of the file, in order

parseVars == <<category, item, parsed_item, feed_items, parse_pc>>
mergeVars == <<existing_data, existing_ids, news_items, new_items_count,
               prev_data, prev_ids, prev_count, merge_pc>>
runVars   == <<file, file_at_load, bak, pc, retries, feed, attempt, fetches, sleeps,
               scraped, error, runs, delivered>>
enrichVars == <<enrich_pc, enrich_items, to_process, enrich_loaded, enrich_runs>>
rankVars  == <<stories, percentage, min_stories, max_stories, response, result, invocations,
               rank_pc>>
dedupVars == <<dedup_items, use_semantic, similar, close, unique_news, prev_unique,
               embed_calls, dedup_pc>>
digestVars == <<environ, folder, categorized_news, summaries_by_category, gave_up,
                batch_reads, oracle_calls, digest_error, posted, digest_pc>>
raceVars  == <<race_pc, race_data, race_ids, race_feed, race_log>>
vars      == <<parseVars, mergeVars, runVars, enrichVars, rankVars, dedupVars,
               digestVars, raceVars>>

(***************************************************************************)
(* Bounds of the model.                                                    *)
(***************************************************************************)
MaxFeedItems == 2   \* <item> elements per feed document
MaxBatch     == 2   \* items of a batch loaded at the start of SpecMerge
MaxNew       == 2   \* items of a list handed to add_new_items in SpecMerge
MaxRetries   == 2   \* largest configured retry_count
NumFeeds     == 2   \* configured categories
MaxRuns      == 2   \* ingestion runs
Week         == 1   \* the ISO week of the runs

(***************************************************************************)
(* Values.                                                                 *)
(***************************************************************************)
None   == "<None>"     \* Python's None
Absent == "<absent>"   \* item.find(tag) is None: the element is not there
Empty  == "<empty>"    \* the element is there and its .text is None
NoExc  == "<none>"     \* no exception

Categories == {"cat1", "cat2"}

SeqsUpTo(S, n) == UNION {[1..k -> S] : k \in 0..n}

(***************************************************************************)
(* Time.  Instants are counted in days; a publication time is an instant   *)
(* whatever the UTC offset it was written with (astimezone keeps it).      *)
(***************************************************************************)
DaysPerWeek == 7

\* get_week_range: Monday 00:00 of the ISO week, and seven days later.
get_week_range(week) ==
    LET start_of_week == week * DaysPerWeek
    IN  [start |-> start_of_week, end |-> start_of_week + DaysPerWeek]

start_of_week == get_week_range(Week).start
end_of_week   == get_week_range(Week).end

\* The pubDate texts of the model and what datetime.strptime makes of them
\* with the format '%a, %d %b %Y %H:%M:%S %z'; a text outside the table raises
\* ValueError.
strptime ==
    [s \in {"Sun, last week", "Mon, this week", "Mon, next week"} |->
        CASE s = "Sun, last week" -> start_of_week - 1
          [] s = "Mon, this week" -> start_of_week
          [] s = "Mon, next week" -> end_of_week]

InvalidDate == "Invalid Date"

PubDateTexts == DOMAIN strptime \cup {InvalidDate}

\* A datetime object, as parse_rss_item stores it under 'pub_date'.
DateTime(t) == [type |-> "datetime", at |-> t]

(***************************************************************************)
(* Feed <item> elements.  Each child element is Absent, Empty or its text. *)
(***************************************************************************)
TitleTexts == {"T"}
DescriptionTexts == {"<p>D</p>"}
GuidTexts == {"g1", "http://x/1"}
LinkTexts == {"http://x/L"}

RawItems ==
    [title       : {Absent, Empty} \cup TitleTexts,
     description : {Absent, Empty} \cup DescriptionTexts,
     guid        : {Absent, Empty} \cup GuidTexts,
     link        : {Absent, Empty} \cup LinkTexts,
     pubDate     : {Absent, Empty} \cup PubDateTexts]

\* re.sub('<.*?>', '', raw_html).strip() on the description texts of the model.
clean_html(raw_html) ==
    CASE raw_html = "<p>D</p>" -> "D"
      [] OTHER -> raw_html

\* str.startswith('http') on the guid texts of the model.
startswith_http(s) == s \in {"http://x/1", "http://x/L"}

\* item.find(tag).text.strip(): AttributeError when the element is absent
\* (find returns None) or has no text (.text is None).
TextRaises(element) == element \in {Absent, Empty}

\* What a call of parse_rss_item comes to.
Raised(exc)      == [exc |-> exc, value |-> <<>>]
ReturnedNone     == [exc |-> NoExc, value |-> <<>>]
Returned(record) == [exc |-> NoExc, value |-> <<record>>]
NotCalled        == [exc |-> "<not called>", value |-> <<>>]

parse_rss_item(it, cat) ==
    IF TextRaises(it.title) THEN Raised("AttributeError")
    ELSE IF TextRaises(it.description) THEN Raised("AttributeError")
    ELSE IF it.guid = Empty THEN Raised("AttributeError")
    ELSE IF it.pubDate = Empty THEN Raised("AttributeError")
    ELSE IF it.link = Empty THEN Raised("AttributeError")
    ELSE
      LET title        == it.title
          description  == clean_html(it.description)
          post_id      == IF it.guid # Absent THEN it.guid ELSE None
          pub_date_str == IF it.pubDate # Absent THEN it.pubDate ELSE None
      IN  IF it.link = Absent /\ ~(post_id # None /\ startswith_http(post_id))
          THEN ReturnedNone
          ELSE
            LET url == IF it.link # Absent THEN it.link ELSE post_id
            IN  IF pub_date_str = None THEN ReturnedNone
                ELSE IF pub_date_str \notin DOMAIN strptime THEN ReturnedNone
                ELSE Returned([id          |-> post_id,
                               title       |-> title,
                               description |-> description,
                               category    |-> cat,
                               pub_date    |-> DateTime(strptime[pub_date_str]),
                               url         |-> url])

\* Mutant: the end of the window is inclusive (<= for <).
InWindowEndInclusive(record, start, end) ==
    start <= record.pub_date.at /\ record.pub_date.at <= end

InWindow(record, start, end) ==
    start <= record.pub_date.at /\ record.pub_date.at < end

\* One pass of the loop body of parse_rss_feed: news is the list so far.
\* The result is the outcome of parse_rss_item and the list after the pass.
parse_rss_feed_step(news, it, cat, start, end) ==
    LET r == parse_rss_item(it, cat)
    IN  [parsed |-> r,
         news   |-> IF r.exc = NoExc /\ r.value # <<>>
                       /\ InWindow(r.value[1], start, end)
                    THEN Append(news, r.value[1])
                    ELSE news]

\* A feed document: not well-formed XML (ET.fromstring raises ParseError), or
\* the sequence of its ./channel/item elements.
Xml(items) == [well_formed |-> TRUE, items |-> items]
Malformed  == [well_formed |-> FALSE, items |-> <<>>]

RECURSIVE parse_rss_feed_loop(_, _, _, _, _)
parse_rss_feed_loop(news, items, cat, start, end) ==
    IF items = <<>> THEN [exc |-> NoExc, value |-> news]
    ELSE LET s == parse_rss_feed_step(news, Head(items), cat, start, end)
         IN  IF s.parsed.exc # NoExc
             THEN [exc |-> s.parsed.exc, value |-> <<>>]
             ELSE parse_rss_feed_loop(s.news, Tail(items), cat, start, end)

parse_rss_feed(xml_data, cat, start, end) ==
    IF ~xml_data.well_formed THEN [exc |-> "ParseError", value |-> <<>>]
    ELSE parse_rss_feed_loop(<<>>, xml_data.items, cat, start, end)


(***************************************************************************)
(* The incremental store: JSON form of a batch, and the merge.             *)
(***************************************************************************)
\* DateTimeEncoder.default: a datetime is written as its ISO-8601 string;
\* strings and None are JSON values already.
DateTimeEncoder(obj) ==
    IF obj.type = "datetime" THEN [type |-> "str", at |-> obj.at] ELSE obj

\* json.dump(data, cls=DateTimeEncoder) followed by json.loads: the list read
\* back.  Every field but pub_date is a string or None and reads back as is.
json_roundtrip(data) ==
    [i \in 1..Len(data) |->
        [data[i] EXCEPT !.pub_date = DateTimeEncoder(@)]]

\* load_existing_news_data line 300: {item['id'] for item in existing_data}
ids_of(data) == {data[i].id : i \in 1..Len(data)}

\* add_new_items, the loop of lines 315-319 from position k of news on.
RECURSIVE add_new_items_loop(_, _, _, _, _)
add_new_items_loop(news, k, data, ids, count) ==
    IF k > Len(news) THEN [data |-> data, ids |-> ids, count |-> count]
    ELSE IF news[k].id \notin ids
         THEN add_new_items_loop(news, k + 1, Append(data, news[k]),
                                 ids \cup {news[k].id}, count + 1)
         ELSE add_new_items_loop(news, k + 1, data, ids, count)

\* Mutant: the id set is not updated when an item is appended (line 318
\* left out), so the same id passes the test again.
RECURSIVE add_new_items_loop_ids_not_updated(_, _, _, _, _)
add_new_items_loop_ids_not_updated(news, k, data, ids, count) ==
    IF k > Len(news) THEN [data |-> data, ids |-> ids, count |-> count]
    ELSE IF news[k].id \notin ids
         THEN add_new_items_loop_ids_not_updated(
                  news, k + 1, Append(data, news[k]), ids, count + 1)
         ELSE add_new_items_loop_ids_not_updated(news, k + 1, data, ids, count)

add_new_items_ids_not_updated(news, data, ids) ==
    add_new_items_loop_ids_not_updated(news, 1, data, ids, 0)

\* Mutant: every id is tested against the id set as it was when the call
\* began, so an id repeated inside the list is appended twice.
add_new_items_tests_old_ids(news, data, ids) ==
    LET fresh == SelectSeq(news, LAMBDA x : x.id \notin ids)
    IN  [data |-> data \o fresh, ids |-> ids \cup ids_of(fresh),
         count |-> Len(fresh)]

\* Mutant: a new item is put at the front of the batch (insert(0, item)
\* for append).
add_new_items_at_front(news, data, ids) ==
    LET r == add_new_items_loop(news, 1, <<>>, ids, 0)
    IN  [data |-> r.data \o data, ids |-> r.ids, count |-> r.count]

\* Mutant: an item whose id the batch holds takes the place of the item
\* held (last writer wins).
add_new_items_last_wins(news, data, ids) ==
    LET r == add_new_items_loop(news, 1, data, ids, 0)
        last(x) == CHOOSE k \in 1..Len(news) :
                       /\ news[k].id = x
                       /\ \A j \in 1..Len(news) : news[j].id = x => j <= k
    IN  [data |-> [i \in 1..Len(r.data) |->
                      IF r.data[i].id \in ids_of(news)
                      THEN news[last(r.data[i].id)] ELSE r.data[i]],
         ids |-> r.ids, count |-> r.count]

\* add_new_items: the batch and the id set after the call, and the count
\* it returns.
add_new_items(news, data, ids) == add_new_items_loop(news, 1, data, ids, 0)

PairwiseDistinctIds(data) ==
    \A i, j \in 1..Len(data) : i # j => data[i].id # data[j].id

\* The items parse_rss_feed can return for the week, under any category.
AcceptedItems ==
    {r.value[1] : r \in {x \in {parse_rss_item(it, c) :
                                    it \in RawItems, c \in Categories} :
                            /\ x.value # <<>>
                            /\ InWindow(x.value[1], start_of_week, end_of_week)}}

\* The batches a period file can hold after earlier runs: accepted items in
\* their JSON form, ids pairwise distinct.
LoadedBatches ==
    {json_roundtrip(b) : b \in {x \in SeqsUpTo(AcceptedItems, MaxBatch) :
                                    PairwiseDistinctIds(x)}}

(***************************************************************************)
(* Idle values of the variables a specification does not use.              *)
(***************************************************************************)
NoRawItem == [title |-> Absent, description |-> Absent, guid |-> Absent,
              link |-> Absent, pubDate |-> Absent]

ParseIdle ==
    /\ category = "cat1"
    /\ item = NoRawItem
    /\ parsed_item = NotCalled
    /\ feed_items = <<>>
    /\ parse_pc = "idle"

MergeHistoryIdle ==
    /\ news_items = <<>>
    /\ new_items_count = 0
    /\ prev_data = <<>>
    /\ prev_ids = {}
    /\ prev_count = 0
    /\ merge_pc = "idle"

(***************************************************************************)
(* SpecParse: parse_rss_feed over a feed document whose <item> elements    *)
(* are read one by one, each of any shape.                                 *)
(***************************************************************************)
\* One pass of the loop of parse_rss_feed (line 143-146) over the next <item>.
ParseItem ==
    /\ parse_pc = "loop"
    /\ \E it \in RawItems :
         LET s == parse_rss_feed_step(feed_items, it, category,
                                      start_of_week, end_of_week)
         IN  /\ item' = it
             /\ parsed_item' = s.parsed
             /\ feed_items' = s.news
             /\ parse_pc' = IF s.parsed.exc # NoExc THEN "raised" ELSE "loop"
    /\ Len(feed_items) < MaxFeedItems
    /\ UNCHANGED <<category, mergeVars, runVars, enrichVars,
                   rankVars, dedupVars, digestVars, raceVars>>

\* The document has no further <item>: parse_rss_feed returns news_items.
ParseReturn ==
    /\ parse_pc = "loop"
    /\ parse_pc' = "returned"
    /\ UNCHANGED <<category, item, parsed_item, feed_items, mergeVars, runVars, enrichVars,
                   rankVars, dedupVars, digestVars, raceVars>>

RunIdle ==
    /\ file = [kind |-> "missing", data |-> <<>>]
    /\ file_at_load = [kind |-> "<not loaded>", data |-> <<>>]
    /\ bak = [kind |-> "missing", data |-> <<>>]
    /\ pc = "idle"
    /\ retries = 0
    /\ feed = 0
    /\ attempt = 0
    /\ fetches = 0
    /\ sleeps = 0
    /\ scraped = <<>>
    /\ error = NoExc
    /\ runs = 0
    /\ delivered = {}

EnrichIdle ==
    /\ enrich_pc = "idle"
    /\ enrich_items = <<>>
    /\ to_process = <<>>
    /\ enrich_loaded = [kind |-> "<not loaded>", data |-> <<>>]
    /\ enrich_runs = 0

RankIdle ==
    /\ stories = <<>>
    /\ percentage = 0
    /\ min_stories = 0
    /\ max_stories = 0
    /\ response = [kind |-> "<not invoked>", lines |-> <<>>]
    /\ result = [exc |-> "<not called>", value |-> <<>>]
    /\ invocations = 0
    /\ rank_pc = "idle"

DedupIdle ==
    /\ dedup_items = <<>>
    /\ use_semantic = FALSE
    /\ similar = {}
    /\ close = {}
    /\ unique_news = <<>>
    /\ prev_unique = <<>>
    /\ embed_calls = 0
    /\ dedup_pc = "idle"

DigestIdle ==
    /\ environ = {}
    /\ folder = [kind |-> "<not read>", categories |-> <<>>]
    /\ categorized_news = <<>>
    /\ summaries_by_category = <<>>
    /\ gave_up = {}
    /\ batch_reads = 0
    /\ oracle_calls = 0
    /\ digest_error = NoExc
    /\ posted = 0
    /\ digest_pc = "idle"

RaceIdle ==
    /\ race_pc = <<>>
    /\ race_data = <<>>
    /\ race_ids = <<>>
    /\ race_feed = <<>>
    /\ race_log = <<>>

InitParse ==
    /\ category \in Categories
    /\ item = NoRawItem
    /\ parsed_item = NotCalled
    /\ feed_items = <<>>
    /\ parse_pc = "loop"
    /\ existing_data = <<>>
    /\ existing_ids = {}
    /\ MergeHistoryIdle
    /\ RunIdle
    /\ EnrichIdle
    /\ RankIdle
    /\ DedupIdle
    /\ DigestIdle
    /\ RaceIdle

NextParse == ParseItem \/ ParseReturn

SpecParse == InitParse /\ [][NextParse]_vars


(***************************************************************************)
(* SpecMerge: a loaded batch, and add_new_items called on lists of         *)
(* accepted items, each list merged once or twice in a row.                *)
(***************************************************************************)
\* The ingestor's list grows by one accepted item.
IngestItem ==
    /\ merge_pc = "build"
    /\ Len(news_items) < MaxNew
    /\ \E it \in AcceptedItems : news_items' = Append(news_items, it)
    /\ UNCHANGED <<existing_data, existing_ids, new_items_count, prev_data,
                   prev_ids, prev_count, merge_pc, parseVars, runVars, enrichVars,
                   rankVars, dedupVars, digestVars, raceVars>>

\* add_new_items(news_items, existing_data, existing_ids)
CallAddNewItems(next_pc) ==
    LET r == add_new_items(news_items, existing_data, existing_ids)
    IN  /\ existing_data' = r.data
        /\ existing_ids' = r.ids
        /\ new_items_count' = r.count
        /\ prev_data' = existing_data
        /\ prev_ids' = existing_ids
        /\ prev_count' = new_items_count
        /\ merge_pc' = next_pc
        /\ UNCHANGED <<news_items, parseVars, runVars, enrichVars,
                   rankVars, dedupVars, digestVars, raceVars>>

AddNewItems ==
    /\ merge_pc = "build"
    /\ CallAddNewItems("called")

\* The same list is merged a second time.
AddNewItemsAgain ==
    /\ merge_pc = "called"
    /\ CallAddNewItems("called_again")

\* The next list (the next feed, or the next run) starts; the record of the
\* last calls is cleared.
NextList ==
    /\ merge_pc \in {"called", "called_again"}
    /\ merge_pc' = "build"
    /\ news_items' = <<>>
    /\ new_items_count' = 0
    /\ prev_data' = <<>>
    /\ prev_ids' = {}
    /\ prev_count' = 0
    /\ UNCHANGED <<existing_data, existing_ids, parseVars, runVars, enrichVars,
                   rankVars, dedupVars, digestVars, raceVars>>

InitMerge ==
    /\ existing_data \in LoadedBatches
    /\ existing_ids = ids_of(existing_data)
    /\ news_items = <<>>
    /\ new_items_count = 0
    /\ prev_data = <<>>
    /\ prev_ids = {}
    /\ prev_count = 0
    /\ merge_pc = "build"
    /\ ParseIdle
    /\ RunIdle
    /\ EnrichIdle
    /\ RankIdle
    /\ DedupIdle
    /\ DigestIdle
    /\ RaceIdle

NextMerge == IngestItem \/ AddNewItems \/ AddNewItemsAgain \/ NextList

SpecMerge == InitMerge /\ [][NextMerge]_vars


(***************************************************************************)
(* Spec: ingestion runs.  main() loads the period file, scrapes the        *)
(* configured feeds in order, each with the retry loop of scrape_rss_feed, *)
(* merges what each returns, and saves.                                    *)
(***************************************************************************)
\* The period file: missing, empty (or blank), text that is no JSON, bytes
\* that do not decode as text, or the JSON form of a batch.
File(kind, data) == [kind |-> kind, data |-> data]

MissingFile == File("missing", <<>>)

\* Mutant: the batch of a well-formed file is not read (an empty list is
\* returned for it).
load_existing_data_forgets(f) ==
    CASE f.kind = "undecodable" ->
            [exc |-> "UnicodeDecodeError", data |-> <<>>, backup |-> FALSE]
      [] f.kind = "not json" -> [exc |-> NoExc, data |-> <<>>, backup |-> TRUE]
      [] OTHER -> [exc |-> NoExc, data |-> <<>>, backup |-> FALSE]

\* load_existing_data: the exception it raises or the list it returns, and
\* whether it calls backup_file.  Reading bytes that do not decode raises
\* UnicodeDecodeError, which is no json.JSONDecodeError and is not caught.
load_existing_data(f) ==
    CASE f.kind = "missing"     -> [exc |-> NoExc, data |-> <<>>, backup |-> FALSE]
      [] f.kind = "empty"       -> [exc |-> NoExc, data |-> <<>>, backup |-> FALSE]
      [] f.kind = "json"        -> [exc |-> NoExc, data |-> f.data, backup |-> FALSE]
      [] f.kind = "not json"    -> [exc |-> NoExc, data |-> <<>>, backup |-> TRUE]
      [] f.kind = "undecodable" ->
            [exc |-> "UnicodeDecodeError", data |-> <<>>, backup |-> FALSE]

\* backup_file: os.rename(file_path, file_path + '.bak'); an OSError is
\* logged and swallowed, and the files stay as they were.
backup_file(f, b, rename_ok) ==
    IF rename_ok THEN [file |-> MissingFile, bak |-> f]
    ELSE [file |-> f, bak |-> b]

\* scrape_rss_feed line 226: for attempt in range(retries)
\* Mutant: one attempt too many (range(retries + 1)).
in_range_off_by_one(k, n) == k <= n

in_range(k, n) == k < n

\* Mutant: the delay follows every failed attempt, the last one too.
sleeps_after_every_failure(k, n) == k < n

\* handle_request_exception line 245: sleep unless this was the last attempt.
sleeps_after(k, n) == k < n - 1

\* config["categories"].items(): the category of the f-th configured feed.
category_of(f) == CASE f = 1 -> "cat1" [] f = 2 -> "cat2" [] OTHER -> "cat3"

\* The <item> elements the feeds of the runs are made of.
RawItem(title, description, guid, link, pubDate) ==
    [title |-> title, description |-> description, guid |-> guid,
     link |-> link, pubDate |-> pubDate]

ItemA       == RawItem("T", "<p>D</p>", "g1", "http://x/L", "Mon, this week")
ItemB       == RawItem("T", "<p>D</p>", "http://x/1", Absent, "Mon, this week")
ItemNoGuid  == RawItem("T", "<p>D</p>", Absent, "http://x/L", "Mon, this week")
ItemOld     == RawItem("T", "<p>D</p>", "g1", "http://x/L", "Sun, last week")
ItemBadDate == RawItem("T", "<p>D</p>", "g1", "http://x/L", InvalidDate)
ItemNoTitle == RawItem(Absent, "<p>D</p>", "g1", "http://x/L", "Mon, this week")

\* What a feed can answer a fetch with.
Responses ==
    {Malformed, Xml(<<>>), Xml(<<ItemA>>), Xml(<<ItemA, ItemB>>),
     Xml(<<ItemB, ItemA>>), Xml(<<ItemNoGuid, ItemA>>),
     Xml(<<ItemOld, ItemBadDate, ItemB>>), Xml(<<ItemA, ItemNoTitle>>)}

\* How the scrape of one feed ended: its status and the fetches and sleeps
\* it made.  The list it returned is news_items until the next feed returns.
ScrapeRecord(status, n_fetches, n_sleeps) ==
    [status |-> status, fetches |-> n_fetches, sleeps |-> n_sleeps]

RunCanStart ==
    \/ pc = "start"
    \/ pc \in {"done", "crashed"} /\ runs < MaxRuns

\* main lines 338-342: load_existing_news_data(file_path), in a new process.
LoadExistingNewsData ==
    /\ RunCanStart
    /\ \E rename_ok \in BOOLEAN :
         LET r == load_existing_data(file)
             b == IF r.backup THEN backup_file(file, bak, rename_ok)
                  ELSE [file |-> file, bak |-> bak]
         IN  /\ file' = b.file
             /\ bak' = b.bak
             /\ existing_data' = r.data
             /\ existing_ids' = ids_of(r.data)
             /\ error' = r.exc
             /\ pc' = IF r.exc # NoExc THEN "crashed"
                      ELSE IF NumFeeds = 0 THEN "save" ELSE "scrape"
             /\ feed' = IF r.exc # NoExc \/ NumFeeds = 0 THEN 0 ELSE 1
    /\ file_at_load' = file
    /\ runs' = runs + 1
    /\ attempt' = 0
    /\ fetches' = 0
    /\ sleeps' = 0
    /\ scraped' = <<>>
    /\ delivered' = {}
    /\ news_items' = <<>>
    /\ new_items_count' = 0
    /\ UNCHANGED <<retries, prev_data, prev_ids, prev_count, merge_pc, parseVars,
                   rankVars, dedupVars, digestVars, raceVars>>

\* Mutant: the batch is saved after the merge of each feed, and the run ends
\* with the first save.
MergeAndSaveAtOnce(status, items, n_fetches) ==
    LET r == add_new_items(items, existing_data, existing_ids)
    IN  /\ news_items' = items
        /\ existing_data' = r.data
        /\ existing_ids' = r.ids
        /\ new_items_count' = r.count
        /\ scraped' = Append(scraped,
                             ScrapeRecord(status, n_fetches, sleeps))
        /\ delivered' = delivered \cup ids_of(items)
        /\ pc' = "save"
        /\ UNCHANGED <<file, file_at_load, bak, retries, error, runs, feed, attempt,
                       fetches, sleeps, prev_data, prev_ids, prev_count, merge_pc,
                       parseVars, enrichVars, rankVars, dedupVars, digestVars,
                       raceVars>>

\* main line 346 and the loop of line 344: the list scrape_rss_feed returned
\* is merged and the next feed, or the save, follows.
MergeAndGoOn(status, items, n_fetches) ==
    LET r == add_new_items(items, existing_data, existing_ids)
    IN  /\ news_items' = items
        /\ existing_data' = r.data
        /\ existing_ids' = r.ids
        /\ new_items_count' = r.count
        /\ scraped' = Append(scraped,
                             ScrapeRecord(status, n_fetches, sleeps))
        /\ delivered' = delivered \cup ids_of(items)
        /\ pc' = IF feed = NumFeeds THEN "save" ELSE "scrape"
        /\ feed' = IF feed = NumFeeds THEN feed ELSE feed + 1
        /\ attempt' = 0
        /\ fetches' = 0
        /\ sleeps' = 0
        /\ UNCHANGED <<file, file_at_load, bak, retries, error, runs,
                       prev_data, prev_ids, prev_count, merge_pc, parseVars, enrichVars, rankVars,
                       dedupVars, digestVars, raceVars>>

\* An exception leaves scrape_rss_feed and main: the run ends there, and
\* nothing is saved.
RunRaises(status, exc, n_fetches) ==
    /\ scraped' = Append(scraped,
                         ScrapeRecord(status, n_fetches, sleeps))
    /\ pc' = "crashed"
    /\ error' = exc
    /\ attempt' = 0
    /\ fetches' = 0
    /\ sleeps' = 0
    /\ UNCHANGED <<file, file_at_load, bak, retries, feed, runs, delivered, mergeVars,
                   parseVars, enrichVars, rankVars,
                   dedupVars, digestVars, raceVars>>

\* scrape_rss_feed lines 227-231: fetch_rss_feed raises a RequestException;
\* handle_request_exception logs, and sleeps if an attempt is left.
FetchFails ==
    /\ pc = "scrape"
    /\ in_range(attempt, retries)
    /\ fetches' = fetches + 1
    /\ sleeps' = IF sleeps_after(attempt, retries) THEN sleeps + 1 ELSE sleeps
    /\ attempt' = attempt + 1
    /\ UNCHANGED <<file, file_at_load, bak, pc, retries, feed, scraped, error,
                   runs, delivered, mergeVars, parseVars, enrichVars, rankVars,
                   dedupVars, digestVars, raceVars>>

\* scrape_rss_feed lines 228-229: the fetch answers, parse_rss_feed runs on
\* the answer and its list is returned; an exception of parse_rss_feed is no
\* RequestException and is not caught.
FetchReturns ==
    /\ pc = "scrape"
    /\ in_range(attempt, retries)
    /\ \E xml_data \in Responses :
         LET r == parse_rss_feed(xml_data, category_of(feed),
                                 start_of_week, end_of_week)
         IN  IF r.exc = NoExc
             THEN MergeAndGoOn("ok", r.value, fetches + 1)
             ELSE RunRaises(IF r.exc = "ParseError" THEN "unparseable"
                            ELSE "item error", r.exc, fetches + 1)

\* scrape_rss_feed line 232: the attempts are used up, [] is returned.
ScrapeGivesUp ==
    /\ pc = "scrape"
    /\ ~in_range(attempt, retries)
    /\ MergeAndGoOn("fetch failed", <<>>, fetches)

\* save_data line 113: open(file_path, 'w') creates or truncates the file.
SaveOpen ==
    /\ pc = "save"
    /\ file' = File("empty", <<>>)
    /\ pc' = "writing"
    /\ UNCHANGED <<file_at_load, bak, retries, feed, attempt, fetches, sleeps,
                   scraped, error, runs, delivered, mergeVars, parseVars, enrichVars, rankVars,
                   dedupVars, digestVars, raceVars>>

\* save_data line 114: json.dump writes the batch and the file is closed.
SaveDump ==
    /\ pc = "writing"
    /\ file' = File("json", json_roundtrip(existing_data))
    /\ pc' = "done"
    /\ UNCHANGED <<file_at_load, bak, retries, feed, attempt, fetches, sleeps,
                   scraped, error, runs, delivered, mergeVars, parseVars, enrichVars, rankVars,
                   dedupVars, digestVars, raceVars>>

\* The period file before the first run: not there, empty, damaged, or left
\* by an earlier run.
InitFiles ==
    {MissingFile, File("empty", <<>>), File("not json", <<>>),
     File("undecodable", <<>>)}

Init ==
    /\ file \in InitFiles
    /\ file_at_load = File("<not loaded>", <<>>)
    /\ bak = MissingFile
    /\ pc = "start"
    /\ retries \in 0..MaxRetries
    /\ feed = 0
    /\ attempt = 0
    /\ fetches = 0
    /\ sleeps = 0
    /\ scraped = <<>>
    /\ error = NoExc
    /\ runs = 0
    /\ delivered = {}
    /\ existing_data = <<>>
    /\ existing_ids = {}
    /\ MergeHistoryIdle
    /\ ParseIdle
    /\ EnrichIdle
    /\ RankIdle
    /\ DedupIdle
    /\ DigestIdle
    /\ RaceIdle

\* An ingestion run starts.
RunStarts ==
    /\ LoadExistingNewsData
    /\ UNCHANGED enrichVars

Next ==
    \/ RunStarts
    \/ FetchFails
    \/ FetchReturns
    \/ ScrapeGivesUp
    \/ SaveOpen
    \/ SaveDump

Spec == Init /\ [][Next]_vars

(***************************************************************************)
(* The enricher: ContentEnricher.enrich_weekly_news of                     *)
(* src/src/content_enricher.py on the period file.                         *)
(***************************************************************************)
MaxEnrichRuns == 1   \* enrichment runs

\* news_items[i][k] = v: the item with the field k set to v.
With(r, k, v) == [f \in DOMAIN r \cup {k} |-> IF f = k THEN v ELSE r[f]]

\* lines 125-127: the items that carry neither mark.
needs_processing(it) ==
    "ai_summary" \notin DOMAIN it /\ "ai_summary_failed" \notin DOMAIN it

to_process_of(items) == SelectSeq(items, needs_processing)

\* urlparse(url).netloc on the ids of the model: an id that is no URL (or is
\* None) has an empty network location.
netloc(url) == CASE url = "http://x/1" -> "x" [] url = "http://x/L" -> "x"
                 [] OTHER -> ""

\* The domains content_enrichment.sources has a selector for.
ConfiguredDomains == {"x"}

NoContent == "<None>"

\* get_full_content(item['id']): what the call can return.  Without a source
\* configuration for the domain it returns None; with one, the page text, or
\* None when the request fails or the selector matches nothing.
get_full_content(url) ==
    IF netloc(url) \notin ConfiguredDomains THEN {NoContent}
    ELSE {NoContent, "page text"}

\* Mutant: the marked item is taken out of its place and put at the end of
\* the list.
mark_item_moves_to_end(items, id, k, v) ==
    LET hits == {i \in 1..Len(items) : items[i].id = id}
    IN  IF hits = {} THEN items
        ELSE LET first == CHOOSE i \in hits : \A j \in hits : i <= j
             IN  Append(SubSeq(items, 1, first - 1)
                          \o SubSeq(items, first + 1, Len(items)),
                        With(items[first], k, v))

\* lines 143-146 and 152-155: the first item of the list with this id gets
\* the mark.
mark_item(items, id, k, v) ==
    LET hits == {i \in 1..Len(items) : items[i].id = id}
    IN  IF hits = {} THEN items
        ELSE LET first == CHOOSE i \in hits : \A j \in hits : i <= j
             IN  [items EXCEPT ![first] = With(@, k, v)]

NoIngestionRuns == pc \in {"start", "done", "crashed"}
NoEnrichmentRuns == enrich_pc \in {"idle", "returned", "crashed"}

\* enrich_weekly_news lines 113-131: the guards, the load of the period file
\* (json.load raises on a file that holds no JSON) and the selection.  The
\* process of an earlier ingestion run has exited: its memory is gone.
EnrichStart ==
    /\ NoIngestionRuns
    /\ NoEnrichmentRuns
    /\ enrich_runs < MaxEnrichRuns
    /\ enrich_runs' = enrich_runs + 1
    /\ enrich_loaded' = file
    /\ \E enabled \in BOOLEAN :
         IF ~enabled \/ file.kind = "missing"
         THEN /\ enrich_pc' = "returned"
              /\ enrich_items' = <<>>
              /\ to_process' = <<>>
         ELSE IF file.kind # "json"
         THEN /\ enrich_pc' = "crashed"
              /\ enrich_items' = <<>>
              /\ to_process' = <<>>
         ELSE /\ enrich_items' = file.data
              /\ to_process' = to_process_of(file.data)
              /\ enrich_pc' = IF to_process_of(file.data) = <<>>
                              THEN "returned" ELSE "loop"
    /\ pc' = "start"
    /\ file_at_load' = File("<not loaded>", <<>>)
    /\ feed' = 0
    /\ scraped' = <<>>
    /\ error' = NoExc
    /\ delivered' = {}
    /\ existing_data' = <<>>
    /\ existing_ids' = {}
    /\ news_items' = <<>>
    /\ new_items_count' = 0
    /\ UNCHANGED <<file, bak, retries, attempt, fetches, sleeps, runs,
                   prev_data, prev_ids, prev_count, merge_pc, parseVars,
                   rankVars, dedupVars, digestVars, raceVars>>

\* lines 134-156: one article.  The content is fetched by the item's id; with
\* content the model is asked for a summary (an exception of the model leaves
\* the run), without it the item is marked as failed.
EnrichItem ==
    /\ enrich_pc = "loop"
    /\ LET it == Head(to_process)
       IN  \E full_content \in get_full_content(it.id) :
             IF full_content # NoContent
             THEN \E invoke_ok \in BOOLEAN :
                    IF invoke_ok
                    THEN /\ enrich_items' =
                              mark_item(enrich_items, it.id, "ai_summary", "S")
                         /\ enrich_pc' = "save"
                    ELSE /\ enrich_pc' = "crashed"
                         /\ UNCHANGED enrich_items
             ELSE /\ enrich_items' =
                       mark_item(enrich_items, it.id, "ai_summary_failed", TRUE)
                  /\ enrich_pc' = "save"
    /\ UNCHANGED <<to_process, enrich_loaded, enrich_runs, runVars, mergeVars,
                   parseVars, rankVars, dedupVars, digestVars, raceVars>>

\* line 159: open(weekly_file, 'w') truncates the period file.
EnrichOpen ==
    /\ enrich_pc = "save"
    /\ file' = File("empty", <<>>)
    /\ enrich_pc' = "writing"
    /\ UNCHANGED <<file_at_load, bak, pc, retries, feed, attempt, fetches,
                   sleeps, scraped, error, runs, delivered, enrich_items,
                   to_process, enrich_loaded, enrich_runs, mergeVars,
                   parseVars, rankVars, dedupVars, digestVars, raceVars>>

\* line 160: json.dump writes the whole list; the loop goes on or ends.
EnrichDump ==
    /\ enrich_pc = "writing"
    /\ file' = File("json", enrich_items)
    /\ to_process' = Tail(to_process)
    /\ enrich_pc' = IF Tail(to_process) = <<>> THEN "returned" ELSE "loop"
    /\ UNCHANGED <<file_at_load, bak, pc, retries, feed, attempt, fetches,
                   sleeps, scraped, error, runs, delivered, enrich_items,
                   enrich_loaded, enrich_runs, mergeVars, parseVars, rankVars,
                   dedupVars, digestVars, raceVars>>

(***************************************************************************)
(* SpecPeriod: ingestion runs and enrichment runs on one period file, one  *)
(* run at a time.                                                          *)
(***************************************************************************)
\* An ingestion run starts while no enrichment run is under way; the process
\* of an earlier enrichment run has exited and its memory is gone.
IngestionStarts ==
    /\ NoEnrichmentRuns
    /\ runs < MaxRuns
    /\ LoadExistingNewsData
    /\ enrich_pc' = "idle"
    /\ enrich_items' = <<>>
    /\ to_process' = <<>>
    /\ enrich_loaded' = File("<not loaded>", <<>>)
    /\ UNCHANGED enrich_runs

InitPeriod ==
    /\ file \in {MissingFile, File("not json", <<>>)}
    /\ file_at_load = File("<not loaded>", <<>>)
    /\ bak = MissingFile
    /\ pc = "start"
    /\ retries = 1
    /\ feed = 0
    /\ attempt = 0
    /\ fetches = 0
    /\ sleeps = 0
    /\ scraped = <<>>
    /\ error = NoExc
    /\ runs = 0
    /\ delivered = {}
    /\ existing_data = <<>>
    /\ existing_ids = {}
    /\ MergeHistoryIdle
    /\ ParseIdle
    /\ EnrichIdle
    /\ RankIdle
    /\ DedupIdle
    /\ DigestIdle
    /\ RaceIdle

NextPeriod ==
    \/ IngestionStarts
    \/ FetchFails
    \/ FetchReturns
    \/ ScrapeGivesUp
    \/ SaveOpen
    \/ SaveDump
    \/ EnrichStart
    \/ EnrichItem
    \/ EnrichOpen
    \/ EnrichDump

SpecPeriod == InitPeriod /\ [][NextPeriod]_vars

(***************************************************************************)
(* The ranker: evaluate_story_importance of src/src/summary_generator.py.  *)
(***************************************************************************)
MaxStoriesIn == 4   \* items of a list handed to the ranker

\* The defaults of the signature (line 136); percentages are in per cent.
DefaultPercentage == 25
DefaultMinStories == 7
DefaultMaxStories == 14

Max(a, b) == IF a >= b THEN a ELSE b
Min(a, b) == IF a <= b THEN a ELSE b

\* round(n * percentage): Python rounds to the nearest integer and a half to
\* the even neighbour.
round(n, pct) ==
    LET x == n * pct
        q == x \div 100
        r == x % 100
    IN  IF 2 * r < 100 THEN q
        ELSE IF 2 * r > 100 THEN q + 1
        ELSE IF q % 2 = 0 THEN q ELSE q + 1

\* Mutant: a list as long as the target is ranked too (< for <=).
below_target_strict(n, t) == n < t

\* line 148: len(news_items) <= target_stories
below_target(n, t) == n <= t

\* lines 140-146
target_stories(n, pct, min_s, max_s) ==
    Max(min_s, Min(max_s, round(n, pct)))

\* The publication times of the stories: the pub_date values, ordered as the
\* sort compares them.
PubDates == {1, 2}

Story(pub_date) == [title |-> "T", pub_date |-> pub_date]

\* lines 137-138: item['simple_id'] = str(idx + 1), on the items themselves.
\* The ordinal stands for its decimal digits.
assign_simple_ids(items) ==
    [i \in 1..Len(items) |-> With(items[i], "simple_id", i)]

\* One line of the oracle's answer.  "pair" is `idx:score` with an integer
\* after the only colon; the other shapes are listed with what the parse of
\* lines 180-188 makes of them.
Line(shape, idx, score) == [shape |-> shape, idx |-> idx, score |-> score]

\* What model.invoke can do: raise, or return a text (its lines).
OracleRaises   == [kind |-> "raises", lines |-> <<>>]
OracleSays(ls) == [kind |-> "text", lines |-> ls]

\* The scores an answer can give an item: none, 1 or 10.
NoScore == 0
ScoreTexts == {NoScore, 1, 10}

\* The answer with one line `i:score` for each item that is given a score,
\* in the order of the ordinals.
RECURSIVE score_lines(_, _)
score_lines(scores, k) ==
    IF k > Len(scores) THEN <<>>
    ELSE (IF scores[k] = NoScore THEN <<>>
          ELSE <<Line("pair", k, scores[k])>>) \o score_lines(scores, k + 1)

\* An ordered comma-separated list of ordinals, on one line.
OrdinalList(ordinals) == [shape |-> "ordinals", idx |-> 0, score |-> 0,
                          ordinals |-> ordinals]

\* The ordinal lists of the model: the first `target` ordinals from the last
\* item backwards, and from the first item on.
OrdinalLists(n, t) ==
    {[i \in 1..t |-> n + 1 - i], [i \in 1..t |-> i]}

\* The answers of the model for a list of n items.
Responses_for(n, t) ==
    {OracleRaises,
     OracleSays(<<>>),
     OracleSays(<<Line("prose", 0, 0)>>),
     OracleSays(<<Line("pair", 1, 0)>>),
     OracleSays(<<Line("pair", 1, 11), Line("pair", 2, 11)>>),
     OracleSays(<<Line("pair", 1, 11), Line("pair", 2, 10)>>),
     OracleSays(<<Line("two colons", 1, 5)>>),
     OracleSays(<<Line("not a number", 1, 0)>>),
     OracleSays(<<Line("other key", 1, 5)>>)}
    \cup {OracleSays(<<OrdinalList(o)>>) : o \in OrdinalLists(n, t)}
    \cup {OracleSays(score_lines(sc, 1)) : sc \in [1..n -> ScoreTexts]}

\* lines 179-188: importance_scores, from line k on.  A line without a colon
\* is skipped; idx, score = line.split(':') raises ValueError on two colons
\* and int() on a text that is no integer, and the line is skipped; a score
\* outside 1..10 is dropped; a key that is not the ordinal's digits (`#1`)
\* is stored under that other key, which no simple_id equals.
RECURSIVE parse_scores(_, _, _)
parse_scores(lines, k, acc) ==
    IF k > Len(lines) THEN acc
    ELSE LET l == lines[k]
         IN  IF l.shape = "pair" /\ 1 <= l.score /\ l.score <= 10
             THEN parse_scores(lines, k + 1,
                      [i \in DOMAIN acc \cup {l.idx} |->
                          IF i = l.idx THEN l.score ELSE acc[i]])
             ELSE IF l.shape = "other key"
             THEN parse_scores(lines, k + 1,
                      [i \in DOMAIN acc \cup {0 - l.idx} |->
                          IF i = 0 - l.idx THEN l.score ELSE acc[i]])
             ELSE parse_scores(lines, k + 1, acc)

importance_scores(lines) == parse_scores(lines, 1, <<>>)

\* importance_scores.get(simple_id, 0)
score_of(scores, simple_id) ==
    IF simple_id \in DOMAIN scores THEN scores[simple_id] ELSE 0

\* Mutant: only the first component is compared.
KeyGE_first_only(a, b) == a[1] >= b[1]

\* Tuples compare from the left.
KeyGE(a, b) == a[1] > b[1] \/ (a[1] = b[1] /\ a[2] >= b[2])

\* sorted(items, key=..., reverse=True): descending by key, items of equal
\* key in their input order.  keys[i] is the key of items[i]; acc holds the
\* positions placed so far.
RECURSIVE sorted_reverse_loop(_, _, _)
sorted_reverse_loop(keys, k, acc) ==
    IF k > Len(keys) THEN acc
    ELSE LET c == Cardinality({i \in 1..Len(acc) : KeyGE(keys[acc[i]], keys[k])})
         IN  sorted_reverse_loop(keys, k + 1,
                 SubSeq(acc, 1, c) \o <<k>> \o SubSeq(acc, c + 1, Len(acc)))

sorted_reverse(items, keys) ==
    LET order == sorted_reverse_loop(keys, 1, <<>>)
    IN  [i \in 1..Len(items) |-> items[order[i]]]

\* Mutant: the sorted list is returned whole ([:target_stories] left out).
sort_by_score_whole(items, scores, t) ==
    sorted_reverse(items,
        [i \in 1..Len(items) |->
            <<score_of(scores, items[i].simple_id), items[i].pub_date>>])

\* lines 194-206: the scored path.
sort_by_score(items, scores, t) ==
    SubSeq(sorted_reverse(items,
               [i \in 1..Len(items) |->
                   <<score_of(scores, items[i].simple_id), items[i].pub_date>>]),
           1, t)

\* Mutant: the list is cut without being sorted.
sort_by_date_unsorted(items, t) == SubSeq(items, 1, t)

\* line 212: the fallback.
sort_by_date(items, t) ==
    SubSeq(sorted_reverse(items,
               [i \in 1..Len(items) |-> <<0, items[i].pub_date>>]),
           1, t)

\* lines 175-212 for an answer of the oracle.  When model.invoke raised,
\* `response` was never bound, and line 210 of the handler reads
\* response.content: UnboundLocalError leaves the function.
rank_with(items, resp, t) ==
    IF resp.kind = "raises" THEN [exc |-> "UnboundLocalError", value |-> <<>>]
    ELSE LET scores == importance_scores(resp.lines)
         IN  IF DOMAIN scores = {}
             THEN [exc |-> NoExc, value |-> sort_by_date(items, t)]
             ELSE [exc |-> NoExc, value |-> sort_by_score(items, scores, t)]

(***************************************************************************)
(* SpecRank: one call of evaluate_story_importance, on any list of stories *)
(* and with any answer of the oracle.                                      *)
(***************************************************************************)
\* target_stories of the call.
target ==
    target_stories(Len(stories), percentage, min_stories, max_stories)

\* lines 137-149: the ordinals, the target, and the return of a list that is
\* not longer than the target.
Evaluate ==
    /\ rank_pc = "called"
    /\ stories' = assign_simple_ids(stories)
    /\ IF below_target(Len(stories), target)
       THEN /\ result' = [exc |-> NoExc, value |-> assign_simple_ids(stories)]
            /\ rank_pc' = "returned"
       ELSE /\ rank_pc' = "invoke"
            /\ UNCHANGED result
    /\ UNCHANGED <<percentage, min_stories, max_stories, response, invocations,
                   parseVars, mergeVars, runVars, enrichVars,
                   dedupVars, digestVars, raceVars>>

\* lines 175-212: the oracle is asked once, and its answer is parsed and the
\* stories sorted, or the handler takes over.
Invoke ==
    /\ rank_pc = "invoke"
    /\ invocations' = invocations + 1
    /\ \E resp \in Responses_for(Len(stories), target) :
         LET r == rank_with(stories, resp, target)
         IN  /\ response' = resp
             /\ result' = r
             /\ rank_pc' = IF r.exc # NoExc THEN "raised" ELSE "returned"
    /\ UNCHANGED <<stories, percentage, min_stories, max_stories, parseVars,
                   mergeVars, runVars, enrichVars,
                   dedupVars, digestVars, raceVars>>

\* The percentage, min_stories and max_stories arguments of the calls.
Percentages == {DefaultPercentage, 100}
StoryLimits == {<<1, 1>>, <<1, 2>>, <<2, 2>>}

InitRank ==
    /\ stories \in {[i \in 1..Len(d) |-> Story(d[i])] :
                       d \in SeqsUpTo(PubDates, MaxStoriesIn)}
    /\ percentage \in Percentages
    /\ \E l \in StoryLimits : min_stories = l[1] /\ max_stories = l[2]
    /\ response = [kind |-> "<not invoked>", lines |-> <<>>]
    /\ result = [exc |-> "<not called>", value |-> <<>>]
    /\ invocations = 0
    /\ rank_pc = "called"
    /\ existing_data = <<>>
    /\ existing_ids = {}
    /\ MergeHistoryIdle
    /\ ParseIdle
    /\ RunIdle
    /\ EnrichIdle
    /\ DedupIdle
    /\ DigestIdle
    /\ RaceIdle

NextRank == Evaluate \/ Invoke

SpecRank == InitRank /\ [][NextRank]_vars

(***************************************************************************)
(* Part 4: the deduplicator, deduplicate_news_items of                     *)
(* src/src/summary_generator.py.                                           *)
(***************************************************************************)
MaxDedup == 3   \* items of a list handed to deduplicate_news_items

\* The texts an ai_summary holds in the model, and their len().
Texts == {"s", "ss"}
len(text) == CASE text = "" -> 0 [] text = "s" -> 1 [] text = "ss" -> 2

\* isinstance(v, str): None stands for every value that is not a text.
isinstance_str(v) == v # None

\* The key of the sort (line 95): len of the ai_summary if it is a text,
\* x.get('ai_summary', '') being '' for an item that has no such field.
richness(x) ==
    LET v == IF "ai_summary" \in DOMAIN x THEN x.ai_summary ELSE ""
    IN  IF isinstance_str(v) THEN len(v) ELSE 0

\* Mutant: sorted ascending and then reversed, which turns the items of
\* equal richness round.
sorted_by_richness_ties_reversed(items) ==
    LET n == Len(items)
        back == [i \in 1..n |-> items[n + 1 - i]]
    IN  sorted_reverse(back, [i \in 1..n |-> <<richness(back[i]), 0>>])

\* sorted(news_items, key=richness, reverse=True) (line 93-97).
sorted_by_richness(items) ==
    sorted_reverse(items, [i \in 1..Len(items) |-> <<richness(items[i]), 0>>])

\* The pairs of titles of a list of n items, the i-th title being i.
TitlePairs(n) == {{i, j} : i, j \in 1..n} \ {{i} : i \in 1..n}

\* similar_titles (line 80-81): whether the ratio of the two titles, lower
\* case, is above 0.8; sim holds the pairs of different titles for which it
\* is, and the ratio of a title with itself is 1.
similar_titles(sim, title1, title2) ==
    title1 = title2 \/ {title1, title2} \in sim

\* cosine_similarity(embeddings[i], embeddings[j]) > 0.70 (line 126-127); cl
\* holds the pairs of titles for which it is and that similar_titles does
\* not catch before (line 120-122).
cosine_above(cl, title1, title2) == {title1, title2} \in cl

\* Mutant: the semantic test is made whatever the flag.
is_duplicate_flag_ignored(a, b, sim, cl, sem) ==
    similar_titles(sim, a.title, b.title) \/ cosine_above(cl, a.title, b.title)

\* The body of the inner loop (line 119-128) for the kept item a and a later
\* item b: whether b's index is added to seen_indices.
is_duplicate(a, b, sim, cl, sem) ==
    \/ similar_titles(sim, a.title, b.title)
    \/ (sem /\ cosine_above(cl, a.title, b.title))

\* The outer loop (line 111-131) from index i on: an index in seen_indices
\* is skipped; any other item marks the later unseen items it duplicates and
\* is appended to unique_news.
RECURSIVE dedup_loop(_, _, _, _, _, _, _)
dedup_loop(sorted, sim, cl, sem, i, seen, unique) ==
    IF i > Len(sorted) THEN unique
    ELSE IF i \in seen
         THEN dedup_loop(sorted, sim, cl, sem, i + 1, seen, unique)
         ELSE LET dup == {j \in (i + 1)..Len(sorted) :
                             j \notin seen
                             /\ is_duplicate(sorted[i], sorted[j], sim, cl, sem)}
              IN  dedup_loop(sorted, sim, cl, sem, i + 1, seen \cup dup,
                             Append(unique, sorted[i]))

\* Mutant: the list is walked in its input order.
deduplicate_news_items_unsorted(items, sem, sim, cl) ==
    dedup_loop(items, sim, cl, sem, 1, {}, <<>>)

deduplicate_news_items(items, sem, sim, cl) ==
    dedup_loop(sorted_by_richness(items), sim, cl, sem, 1, {}, <<>>)

\* The embed_query calls of one call (line 101-106): one per title, and
\* only with the flag on.
embed_queries(items, sem) == IF sem THEN Len(items) ELSE 0

\* The ai_summary of an item of the model: no field, a value that is not a
\* text, or a text.
AiSummaries == {Absent, None} \cup Texts

NewsItem(title, ai_summary) ==
    IF ai_summary = Absent THEN [title |-> title]
    ELSE [title |-> title, ai_summary |-> ai_summary]

\* The first call, on the input list.
Deduplicate ==
    /\ dedup_pc = "called"
    /\ unique_news' = deduplicate_news_items(dedup_items, use_semantic, similar, close)
    /\ embed_calls' = embed_calls + embed_queries(dedup_items, use_semantic)
    /\ dedup_pc' = "returned"
    /\ UNCHANGED <<dedup_items, use_semantic, similar, close, prev_unique, parseVars,
                   mergeVars, runVars, enrichVars, rankVars, digestVars, raceVars>>

\* A second call, on what the first returned.
DeduplicateAgain ==
    /\ dedup_pc = "returned"
    /\ prev_unique' = unique_news
    /\ unique_news' = deduplicate_news_items(unique_news, use_semantic, similar, close)
    /\ embed_calls' = embed_calls + embed_queries(unique_news, use_semantic)
    /\ dedup_pc' = "returned_again"
    /\ UNCHANGED <<dedup_items, use_semantic, similar, close, parseVars,
                   mergeVars, runVars, enrichVars, rankVars, digestVars, raceVars>>

InitDedup ==
    /\ dedup_items \in {[i \in 1..Len(a) |-> NewsItem(i, a[i])] :
                           a \in SeqsUpTo(AiSummaries, MaxDedup)}
    /\ use_semantic \in BOOLEAN
    /\ similar \in SUBSET TitlePairs(Len(dedup_items))
    /\ close \in SUBSET (TitlePairs(Len(dedup_items)) \ similar)
    /\ unique_news = <<>>
    /\ prev_unique = <<>>
    /\ embed_calls = 0
    /\ dedup_pc = "called"
    /\ existing_data = <<>>
    /\ existing_ids = {}
    /\ MergeHistoryIdle
    /\ ParseIdle
    /\ RunIdle
    /\ EnrichIdle
    /\ RankIdle
    /\ DigestIdle
    /\ RaceIdle

NextDedup == Deduplicate \/ DeduplicateAgain

SpecDedup == InitDedup /\ [][NextDedup]_vars

(***************************************************************************)
(* Part 5: the digest run, main of src/src/news_digest.py, with            *)
(* generate_summaries_by_category of src/src/summary_generator.py.         *)
(***************************************************************************)
MaxCategories == 2   \* categories of the batch the digest run reads

\* The settings the run reads with get_env_variable.
SenderSettings == <<"SENDER_NAME", "SENDER_EMAIL", "RECIPIENT_EMAIL">>
MailSettings   == <<"MAILGUN_DOMAIN", "MAILGUN_API_KEY">>
Settings == {SenderSettings[i] : i \in 1..Len(SenderSettings)}
                \cup {MailSettings[i] : i \in 1..Len(MailSettings)}

\* get_env_variable (line 11-16) over a list of names, one after the other:
\* the first name without a (non-empty) value raises EnvironmentError.
get_env_variables(names, env) ==
    IF \A i \in 1..Len(names) : names[i] \in env THEN NoExc
    ELSE "EnvironmentError"

\* The keys of the dict sort_by_category returns, in the order of their
\* first item (line 47-54); item.get('category', 'Uncategorized').
CategoryOrder == <<"cat1", "Uncategorized", "cat2", "cat3">>

\* How many items a category holds: few enough for the ranker to return them
\* as they are, or more than its target.
CategorySizes == {1, DefaultMinStories + 1}

\* The batches of the model after deduplicate_news_items and
\* sort_by_category: for each category, the number of its items.
CategorizedBatches ==
    {[i \in 1..Len(sizes) |-> [category |-> CategoryOrder[i], items |-> sizes[i]]] :
        sizes \in SeqsUpTo(CategorySizes, MaxCategories)}

\* What base_folder holds: no *.json file, a latest file that is not JSON,
\* or a latest file with a batch.
Folders ==
    {[kind |-> "no json file", categories |-> <<>>],
     [kind |-> "not json", categories |-> <<>>]}
    \cup {[kind |-> "batch", categories |-> b] : b \in CategorizedBatches}

\* Whether evaluate_story_importance asks the oracle for a category of n
\* items, called with its default arguments (line 239).
ranker_invokes(n) ==
    ~below_target(n, target_stories(n, DefaultPercentage, DefaultMinStories,
                                     DefaultMaxStories))

\* main, line 55-57: the three sender settings.
ReadSenderSettings ==
    /\ digest_pc = "main"
    /\ digest_error' = get_env_variables(SenderSettings, environ)
    /\ digest_pc' = IF digest_error' = NoExc THEN "summaries" ELSE "raised"
    /\ UNCHANGED <<environ, folder, categorized_news, summaries_by_category, gave_up,
                   batch_reads, oracle_calls, posted, parseVars, mergeVars, runVars,
                   enrichVars, rankVars, dedupVars, raceVars>>

\* generate_summaries_by_category, line 229-235: the latest file is found
\* and read, the batch deduplicated and split by category.  FileNotFoundError
\* and every other exception end the function with no summary (line 243-248).
ReadLatestBatch ==
    /\ digest_pc = "summaries"
    /\ batch_reads' = IF folder.kind = "no json file" THEN batch_reads
                      ELSE batch_reads + 1
    /\ categorized_news' = folder.categories
    /\ digest_pc' = IF folder.categories = <<>> THEN "email" ELSE "loop"
    /\ UNCHANGED <<environ, folder, summaries_by_category, gave_up, oracle_calls,
                   digest_error, posted, parseVars, mergeVars, runVars, enrichVars,
                   rankVars, dedupVars, raceVars>>

\* One pass of the loop of line 237-241 inside the try of line 229: the
\* ranker (which asks the oracle for a long list, and raises when that call
\* raises), then generate_summary (one oracle call, line 77).  An exception
\* of either leaves the loop for the handler of line 245-246.
SummarizeCategory ==
    /\ digest_pc = "loop"
    /\ LET c == Head(categorized_news)
           asked == IF ranker_invokes(c.items) THEN 1 ELSE 0
       IN  \E ranked \in (IF asked = 1 THEN BOOLEAN ELSE {TRUE}) :
           \E generated \in BOOLEAN :
               IF ~ranked
               THEN /\ oracle_calls' = oracle_calls + asked
                    /\ gave_up' = gave_up \cup {[category |-> c.category,
                                                  at |-> "evaluate_story_importance"]}
                    /\ UNCHANGED summaries_by_category
                    /\ digest_pc' = "email"
               ELSE /\ oracle_calls' = oracle_calls + asked + 1
                    /\ IF generated
                       THEN /\ summaries_by_category' =
                                   Append(summaries_by_category, c.category)
                            /\ UNCHANGED gave_up
                            /\ digest_pc' = IF Len(categorized_news) = 1
                                            THEN "email" ELSE "loop"
                       ELSE /\ gave_up' = gave_up \cup {[category |-> c.category,
                                                          at |-> "generate_summary"]}
                            /\ UNCHANGED summaries_by_category
                            /\ digest_pc' = "email"
    /\ categorized_news' = Tail(categorized_news)
    /\ UNCHANGED <<environ, folder, batch_reads, digest_error, posted, parseVars,
                   mergeVars, runVars, enrichVars, rankVars, dedupVars, raceVars>>

\* main, line 61-70, and send_email (line 25-40): the mail domain is read
\* before the try, the API key inside it as an argument of requests.post;
\* EnvironmentError is not a RequestException, so either ends the run.  A
\* RequestException of the post is logged and the run ends normally.
SendEmail ==
    /\ digest_pc = "email"
    /\ digest_error' = get_env_variables(MailSettings, environ)
    /\ IF digest_error' = NoExc
       THEN posted' = posted + 1 /\ digest_pc' = "sent"
       ELSE UNCHANGED posted /\ digest_pc' = "raised"
    /\ UNCHANGED <<environ, folder, categorized_news, summaries_by_category, gave_up,
                   batch_reads, oracle_calls, parseVars, mergeVars, runVars,
                   enrichVars, rankVars, dedupVars, raceVars>>

InitDigest ==
    /\ environ \in SUBSET Settings
    /\ folder \in Folders
    /\ categorized_news = <<>>
    /\ summaries_by_category = <<>>
    /\ gave_up = {}
    /\ batch_reads = 0
    /\ oracle_calls = 0
    /\ digest_error = NoExc
    /\ posted = 0
    /\ digest_pc = "main"
    /\ existing_data = <<>>
    /\ existing_ids = {}
    /\ MergeHistoryIdle
    /\ ParseIdle
    /\ RunIdle
    /\ EnrichIdle
    /\ RankIdle
    /\ DedupIdle
    /\ RaceIdle

NextDigest == ReadSenderSettings \/ ReadLatestBatch \/ SummarizeCategory \/ SendEmail

SpecDigest == InitDigest /\ [][NextDigest]_vars

(***************************************************************************)
(* Part 6: two ingestion runs (main of src/src/rss_scraper.py) at work on  *)
(* the same period file at the same time.  The code takes no lock and      *)
(* compares no version, so their steps interleave freely.                  *)
(***************************************************************************)
RaceRuns == {1, 2}

\* What the feeds answer while the two runs are at work.
RaceResponses == {Xml(<<>>), Xml(<<ItemA>>), Xml(<<ItemA, ItemB>>)}

\* The period file before the two runs: not there, or left by an earlier run.
RaceFiles ==
    {MissingFile,
     File("json", json_roundtrip(
         parse_rss_feed(Xml(<<ItemA>>), category_of(1),
                        start_of_week, end_of_week).value))}

\* json.dump of a run into a file it opened with 'w' (save_data line
\* 113-114).  The open truncated the file; what the file holds at the dump
\* was written since by another run through its own descriptor.  The dump
\* writes from position 0 and does not truncate: over a longer content it
\* leaves the tail of that content behind, which is no JSON.  A batch with
\* more items is the longer one; of two different batches with as many items
\* either can be.
dump_over(f, data) ==
    IF f.kind # "json" \/ f.data = data THEN {File("json", data)}
    ELSE IF Len(data) > Len(f.data) THEN {File("json", data)}
    ELSE IF Len(data) < Len(f.data) THEN {File("not json", <<>>)}
    ELSE {File("json", data), File("not json", <<>>)}

\* main line 338-342 of one of the runs.
RaceLoad ==
    \E p \in RaceRuns :
        /\ race_pc[p] = "start"
        /\ \E rename_ok \in BOOLEAN :
             LET r == load_existing_data(file)
                 b == IF r.backup THEN backup_file(file, bak, rename_ok)
                      ELSE [file |-> file, bak |-> bak]
             IN  /\ file' = b.file
                 /\ bak' = b.bak
                 /\ race_data' = [race_data EXCEPT ![p] = r.data]
                 /\ race_ids' = [race_ids EXCEPT ![p] = ids_of(r.data)]
                 /\ race_pc' = [race_pc EXCEPT ![p] = "scrape"]
        /\ race_feed' = [race_feed EXCEPT ![p] = 1]
        /\ race_log' = Append(race_log, <<"load", p>>)
        /\ UNCHANGED <<file_at_load, pc, retries, feed, attempt, fetches, sleeps,
                       scraped, error, runs, delivered, mergeVars, parseVars,
                       enrichVars, rankVars, dedupVars, digestVars>>

\* main line 344-346 of one of the runs: a feed is scraped and its list
\* merged.
RaceScrape ==
    \E p \in RaceRuns :
        /\ race_pc[p] = "scrape"
        /\ \E xml_data \in RaceResponses :
             LET s == parse_rss_feed(xml_data, category_of(race_feed[p]),
                                     start_of_week, end_of_week)
                 r == add_new_items(s.value, race_data[p], race_ids[p])
             IN  /\ race_data' = [race_data EXCEPT ![p] = r.data]
                 /\ race_ids' = [race_ids EXCEPT ![p] = r.ids]
        /\ race_pc' = [race_pc EXCEPT
                          ![p] = IF race_feed[p] = NumFeeds THEN "save" ELSE "scrape"]
        /\ race_feed' = [race_feed EXCEPT
                          ![p] = IF race_feed[p] = NumFeeds THEN @ ELSE @ + 1]
        /\ UNCHANGED <<race_log, runVars, mergeVars, parseVars, enrichVars, rankVars,
                       dedupVars, digestVars>>

\* save_data line 113 of one of the runs: open(file_path, 'w').
RaceSaveOpen ==
    \E p \in RaceRuns :
        /\ race_pc[p] = "save"
        /\ file' = File("empty", <<>>)
        /\ race_pc' = [race_pc EXCEPT ![p] = "writing"]
        /\ race_log' = Append(race_log, <<"open", p>>)
        /\ UNCHANGED <<race_data, race_ids, race_feed, file_at_load, bak, pc,
                       retries, feed, attempt, fetches, sleeps, scraped, error,
                       runs, delivered, mergeVars, parseVars, enrichVars, rankVars,
                       dedupVars, digestVars>>

\* save_data line 114 of one of the runs: json.dump, and the file is closed.
RaceSaveDump ==
    \E p \in RaceRuns :
        /\ race_pc[p] = "writing"
        /\ file' \in dump_over(file, json_roundtrip(race_data[p]))
        /\ race_pc' = [race_pc EXCEPT ![p] = "done"]
        /\ race_log' = Append(race_log, <<"dump", p>>)
        /\ UNCHANGED <<race_data, race_ids, race_feed, file_at_load, bak, pc,
                       retries, feed, attempt, fetches, sleeps, scraped, error,
                       runs, delivered, mergeVars, parseVars, enrichVars, rankVars,
                       dedupVars, digestVars>>

InitRace ==
    /\ file \in RaceFiles
    /\ file_at_load = File("<not loaded>", <<>>)
    /\ bak = MissingFile
    /\ pc = "idle"
    /\ retries = 0
    /\ feed = 0
    /\ attempt = 0
    /\ fetches = 0
    /\ sleeps = 0
    /\ scraped = <<>>
    /\ error = NoExc
    /\ runs = 0
    /\ delivered = {}
    /\ race_pc = [p \in RaceRuns |-> "start"]
    /\ race_data = [p \in RaceRuns |-> <<>>]
    /\ race_ids = [p \in RaceRuns |-> {}]
    /\ race_feed = [p \in RaceRuns |-> 0]
    /\ race_log = <<>>
    /\ existing_data = <<>>
    /\ existing_ids = {}
    /\ MergeHistoryIdle
    /\ ParseIdle
    /\ EnrichIdle
    /\ RankIdle
    /\ DedupIdle
    /\ DigestIdle

NextRace == RaceLoad \/ RaceScrape \/ RaceSaveOpen \/ RaceSaveDump

SpecRace == InitRace /\ [][NextRace]_vars

(***************************************************************************)
(* Claims on add_new_items (SpecMerge).                                    *)
(***************************************************************************)
Called == merge_pc \in {"called", "called_again"}

\* The items of news, from position k on, whose id is not in old_ids and is
\* not the id of an earlier item of news.
RECURSIVE FirstOfEachAbsentId(_, _, _)
FirstOfEachAbsentId(news, k, old_ids) ==
    IF k > Len(news) THEN <<>>
    ELSE (IF /\ news[k].id \notin old_ids
             /\ \A j \in 1..(k - 1) : news[j].id # news[k].id
          THEN <<news[k]>> ELSE <<>>)
         \o FirstOfEachAbsentId(news, k + 1, old_ids)

\* C1: merging the same list a second time changes nothing: the batch and
\* the id set are as the first call left them and the second call returns 0.
C1_MergeIdempotent ==
    merge_pc = "called_again" =>
        /\ existing_data = prev_data
        /\ existing_ids = prev_ids
        /\ new_items_count = 0

\* A second merge of a list whose first merge appended two items.
C1_Witness ==
    /\ merge_pc = "called_again"
    /\ prev_count = 2
    /\ Len(existing_data) > 2

\* C2: in every state of a batch loaded with pairwise distinct ids, after
\* any add_new_items calls, no two items of the batch share an id and the id
\* set is exactly the set of ids in the batch.
C2_IdsUnique ==
    /\ PairwiseDistinctIds(existing_data)
    /\ existing_ids = ids_of(existing_data)

\* A call on a list that carries one new id twice, under two categories.
C2_Witness ==
    /\ merge_pc = "called"
    /\ \E i, j \in 1..Len(news_items) :
          /\ i < j
          /\ news_items[i].id = news_items[j].id
          /\ news_items[i].category # news_items[j].category
          /\ news_items[i].id \notin prev_ids
    /\ new_items_count >= 1

\* C3 as stated: after a call the batch is the old batch followed by exactly
\* the new items whose id was absent from the old id set, in list order, and
\* the count returned is the number appended.
C3_AppendsEveryAbsentItem ==
    Called =>
        /\ existing_data =
              prev_data \o SelectSeq(news_items, LAMBDA x : x.id \notin prev_ids)
        /\ new_items_count = Len(existing_data) - Len(prev_data)

\* C3 as amended: after a call the batch is the old batch, unmodified and in
\* order, followed by the first item of the list for each id absent from the
\* old id set, in list order; the count returned is the number appended.
C3_AppendsFirstOfEachAbsentId ==
    Called =>
        /\ existing_data =
              prev_data \o FirstOfEachAbsentId(news_items, 1, prev_ids)
        /\ new_items_count = Len(existing_data) - Len(prev_data)

\* A call on a non-empty batch with a list of two items of one new id, of
\* which one was appended.
C3_Witness ==
    /\ merge_pc = "called"
    /\ Len(prev_data) >= 1
    /\ Len(news_items) = 2
    /\ news_items[1].id = news_items[2].id
    /\ news_items[1] # news_items[2]
    /\ new_items_count = 1
    /\ existing_data = Append(prev_data, news_items[1])

(***************************************************************************)
(* Claims on parse_rss_item and parse_rss_feed (SpecParse).                *)
(***************************************************************************)
ItemParsed == parsed_item # NotCalled

\* An <item> that lacks a required element or text, or has a bad date.
IsMalformed(it) ==
    \/ TextRaises(it.title)
    \/ TextRaises(it.description)
    \/ it.guid = Empty
    \/ it.link = Empty
    \/ it.pubDate \in {Absent, Empty, InvalidDate}

\* C6: a malformed <item> never aborts the parse of its feed: it is dropped,
\* nothing is raised and the loop goes on.
C6_MalformedItemDropped ==
    (ItemParsed /\ IsMalformed(item)) =>
        /\ parsed_item = ReturnedNone
        /\ parse_pc # "raised"

\* C7: an accepted item carries the guid of its <item> as id when it has
\* one and its url otherwise; the id is never None.
C7_AcceptedItemHasId ==
    /\ \A i \in 1..Len(feed_items) : feed_items[i].id # None
    /\ (/\ ItemParsed
        /\ parsed_item.value # <<>>
        /\ InWindow(parsed_item.value[1], start_of_week, end_of_week)) =>
          LET x == parsed_item.value[1]
          IN  /\ x.id = (IF item.guid # Absent THEN item.guid ELSE x.url)
              /\ feed_items # <<>>
              /\ feed_items[Len(feed_items)] = x

DateMissingOrUnparsable(it) == it.pubDate \in {Absent, Empty, InvalidDate}

NoResolvableUrl(it) ==
    it.link = Absent /\ it.guid \notin {g \in GuidTexts : startswith_http(g)}

\* C8: an <item> whose date is missing or unparsable, or that has neither a
\* link nor a guid that is a URL, is excluded: parse_rss_item returns None
\* for it and raises nothing.
C8_ExcludedWithoutRaising ==
    (ItemParsed /\ (DateMissingOrUnparsable(item) \/ NoResolvableUrl(item))) =>
        parsed_item = ReturnedNone

\* Every item in the list parse_rss_feed builds and returns has its
\* publication time in [start_of_week, end_of_week).
C9_AllInWindow ==
    \A i \in 1..Len(feed_items) :
        /\ start_of_week <= feed_items[i].pub_date.at
        /\ feed_items[i].pub_date.at < end_of_week

\* The list only grows at its end, by the item just parsed.
C9_DocumentOrder ==
    \/ feed_items' = feed_items
    \/ /\ parsed_item'.value # <<>>
       /\ feed_items' = Append(feed_items, parsed_item'.value[1])

\* C9: in every state every item of the list is in the window, and every
\* step leaves the list as it is or appends the item just parsed.
C9_WindowAndOrder == [](C9_AllInWindow) /\ [][C9_DocumentOrder]_vars

\* parse_rss_feed has returned two different items, the first published at
\* start_of_week exactly, the second the item parsed last.
C9_Witness ==
    /\ parse_pc = "returned"
    /\ Len(feed_items) = 2
    /\ feed_items[1].pub_date.at = start_of_week
    /\ feed_items[1] # feed_items[2]
    /\ parsed_item.value = <<feed_items[2]>>

(***************************************************************************)
(* Claims on scrape_rss_feed, main and load_existing_data (Spec).          *)
(***************************************************************************)
LastScrape == scraped[Len(scraped)]

\* C4: while every fetch of a feed fails the scrape makes one fetch per
\* attempt and never more than retries; a scrape that ended with every fetch
\* failed made exactly retries fetches, returned the empty list, and raised
\* nothing: the run went on.
C4_ExhaustedRetriesReturnEmpty ==
    /\ pc = "scrape" => fetches = attempt /\ attempt <= retries
    /\ \A f \in 1..Len(scraped) :
          scraped[f].status = "fetch failed" => scraped[f].fetches = retries
    /\ (scraped # <<>> /\ LastScrape.status = "fetch failed") =>
          /\ news_items = <<>>
          /\ new_items_count = 0
          /\ pc # "crashed"
          /\ error = NoExc

\* A feed of a run with retry budget 2 has failed twice and returned [].
C4_Witness ==
    /\ retries = 2
    /\ scraped # <<>>
    /\ LastScrape = ScrapeRecord("fetch failed", 2, 1)
    /\ news_items = <<>>
    /\ pc \in {"scrape", "save"}

RunEnded == pc \in {"done", "crashed"}

\* A feed failed: its fetches all failed, or its answer could not be parsed.
FeedFailed(f) == scraped[f].status \in {"fetch failed", "unparseable"}

\* C5: a run in which a feed failed, and nothing else went wrong, ends with
\* every feed scraped and the batch, with the items of the other feeds
\* merged, saved in the period file.
C5_FeedFailureDoesNotStopRun ==
    (/\ RunEnded
     /\ \E f \in 1..Len(scraped) : FeedFailed(f)
     /\ \A f \in 1..Len(scraped) : scraped[f].status # "item error") =>
        /\ pc = "done"
        /\ Len(scraped) = NumFeeds
        /\ file = File("json", json_roundtrip(existing_data))

\* The load of the run has just ended and nothing else has happened.
LoadJustDone == runs >= 1 /\ scraped = <<>> /\ pc \in {"scrape", "crashed"}

\* C10: after the load of a period file that holds content that cannot be
\* parsed, nothing was raised, the batch is empty, the content is in the
\* .bak file and the period file is gone; a missing or empty file gives an
\* empty batch and raises nothing.
C10_CorruptFileQuarantined ==
    LoadJustDone =>
        /\ file_at_load.kind \in {"not json", "undecodable"} =>
              /\ pc # "crashed"
              /\ existing_data = <<>>
              /\ bak = file_at_load
              /\ file = MissingFile
        /\ file_at_load.kind \in {"missing", "empty"} =>
              /\ pc # "crashed"
              /\ existing_data = <<>>

\* C26: in the retry loop of a feed every fetch made so far has failed, and
\* a delay followed each of them except the last one the budget allows; a
\* scrape that a fetch ended by answering made one fetch after every failed
\* one and one delay between consecutive fetches, none after the answer; a
\* scrape whose fetches all failed made retries fetches and one delay less
\* (none for an empty budget); no scrape makes more than retries fetches.
C26_RetrySequencing ==
    /\ pc = "scrape" =>
          /\ fetches = attempt
          /\ attempt <= retries
          /\ sleeps = IF attempt = retries /\ retries > 0 THEN attempt - 1 ELSE attempt
    /\ \A f \in 1..Len(scraped) :
          /\ scraped[f].fetches <= retries
          /\ scraped[f].status # "fetch failed" =>
                /\ scraped[f].fetches >= 1
                /\ scraped[f].sleeps = scraped[f].fetches - 1
          /\ scraped[f].status = "fetch failed" =>
                /\ scraped[f].fetches = retries
                /\ scraped[f].sleeps = Max(retries - 1, 0)

\* With a budget of 2 a feed failed once, was waited for once, and answered
\* the second fetch.
C26_Witness ==
    /\ retries = 2
    /\ scraped # <<>>
    /\ LastScrape = ScrapeRecord("ok", 2, 1)
    /\ pc \in {"scrape", "save"}

\* The period file is as the load of the run found it; a file that could
\* not be parsed was at most renamed to .bak by that load, its content kept.
FileAsLoaded ==
    \/ file = file_at_load
    \/ (file_at_load.kind = "not json" /\ file = MissingFile /\ bak = file_at_load)

\* A step of save_data with every configured feed scraped and merged.
SaveStep ==
    /\ Len(scraped) = NumFeeds
    /\ \/ (pc = "save" /\ pc' = "writing")
       \/ (pc = "writing" /\ pc' = "done")

\* C27: from its load to its save, and when it has stopped before the save,
\* a run leaves the period file as it found it; the save is reached only
\* with every configured feed scraped and merged, it is the only thing that
\* writes the file, it writes the run's batch, and after it the run writes
\* nothing more.
C27_SingleSaveAfterAllFeeds ==
    /\ [](/\ (runs >= 1 /\ pc \in {"scrape", "save", "crashed"}) => FileAsLoaded
          /\ pc \in {"save", "writing", "done"} => Len(scraped) = NumFeeds
          /\ pc = "done" => file = File("json", json_roundtrip(existing_data)))
    /\ [][/\ (file' # file /\ runs' = runs) => SaveStep
          /\ (pc = "done" /\ runs' = runs) => file' = file]_vars

\* The second run has saved a batch larger than the one it loaded.
C27_Witness ==
    /\ pc = "done"
    /\ runs = 2
    /\ file_at_load.kind = "json"
    /\ file.kind = "json"
    /\ Len(file.data) > Len(file_at_load.data)

(***************************************************************************)
(* Claims on the period file over ingestion and enrichment runs            *)
(* (SpecPeriod).                                                           *)
(***************************************************************************)
ids_seq(data) == [i \in 1..Len(data) |-> data[i].id]
titles_seq(data) == [i \in 1..Len(data) |-> data[i].title]

IsPrefix(s, t) == Len(s) <= Len(t) /\ \A i \in 1..Len(s) : s[i] = t[i]

\* The batch a period file holds: a file that is not there, is empty or
\* holds no JSON holds no item.
BatchOf(f) == IF f.kind = "json" THEN f.data ELSE <<>>

\* The period file as the ingestor's load can leave it: as it was, or moved
\* away by backup_file.
FilesAfterLoad ==
    {file_at_load} \cup
    (IF load_existing_data(file_at_load).backup THEN {MissingFile} ELSE {})

\* The list the enricher held before it marked the article of this pass.
EnrichItemsBefore ==
    LET it == Head(to_process)
        hits == {i \in 1..Len(enrich_items) : enrich_items[i].id = it.id}
    IN  [i \in 1..Len(enrich_items) |->
            IF i \in hits /\ \A j \in hits : i <= j
            THEN it ELSE enrich_items[i]]

\* C11: while the ingestor saves and after it has saved, the period file is
\* what it was before the save or holds the complete new batch; while the
\* enricher writes back, the period file holds the complete list as it was
\* before the pass or the complete list with the new mark.  A process that
\* stops in a state leaves the file as it is in that state.
C11_SaveIsAtomic ==
    /\ pc \in {"writing", "done"} =>
          \/ file = File("json", json_roundtrip(existing_data))
          \/ file \in FilesAfterLoad
    /\ enrich_pc = "writing" =>
          \/ file = File("json", enrich_items)
          \/ file = File("json", EnrichItemsBefore)

\* Every field an item had is still there with its value.
OnlyAnnotated(old, new) ==
    /\ Len(old) = Len(new)
    /\ \A i \in 1..Len(old) :
          \A f \in DOMAIN old[i] : f \in DOMAIN new[i] /\ new[i][f] = old[i][f]

\* C12: when an ingestion run has ended (saved, or raised), the period file
\* holds the items it held when the run loaded it, unchanged and in their
\* order, followed by the items the run appended; when an enrichment run has
\* ended (returned, or raised), the period file holds the items it held when
\* the run loaded it, in their order, every field they had unchanged.  So
\* over runs executed one after the other to their end no id disappears and
\* no two items change places.
C12_BatchOnlyGrows ==
    /\ pc \in {"done", "crashed"} =>
          IsPrefix(BatchOf(file_at_load), BatchOf(file))
    /\ enrich_pc \in {"returned", "crashed"} =>
          /\ ids_seq(BatchOf(file)) = ids_seq(BatchOf(enrich_loaded))
          /\ OnlyAnnotated(BatchOf(enrich_loaded), BatchOf(file))

\* An ingestion run has saved a batch whose first item was marked by an
\* enrichment run before it, with an item appended behind the loaded ones.
C12_Witness ==
    /\ pc = "done"
    /\ file_at_load.kind = "json"
    /\ Len(file_at_load.data) >= 1
    /\ ~needs_processing(file_at_load.data[1])
    /\ Len(file.data) > Len(file_at_load.data)
    /\ enrich_runs = 1

\* C13: (round trip) loading the file an ingestion run has just saved gives
\* a list with the ids and the titles of the batch that was saved, in order,
\* and a run that loads a well-formed file starts from its items; (second
\* run) a run whose feeds return only ids the loaded file holds adds no item,
\* and the file it saves has the id sequence of the file it loaded.
C13_RoundTripAndRerun ==
    /\ pc = "done" =>
          LET r == load_existing_data(file)
          IN  /\ r.exc = NoExc
              /\ ~r.backup
              /\ ids_seq(r.data) = ids_seq(existing_data)
              /\ titles_seq(r.data) = titles_seq(existing_data)
    /\ (pc \in {"scrape", "save", "writing", "done"}
        /\ file_at_load.kind = "json") =>
          IsPrefix(file_at_load.data, existing_data)
    /\ (pc = "done" /\ file_at_load.kind = "json"
        /\ delivered \subseteq ids_of(file_at_load.data)) =>
          /\ Len(existing_data) = Len(file_at_load.data)
          /\ new_items_count = 0
          /\ ids_seq(file.data) = ids_seq(file_at_load.data)

\* The second ingestion run has saved after its feeds returned two ids, both
\* in the file the first run had saved; the file holds the same ids.
C13_Witness ==
    /\ pc = "done"
    /\ runs = 2
    /\ enrich_runs = 0
    /\ file_at_load.kind = "json"
    /\ Cardinality(delivered) = 2
    /\ delivered \subseteq ids_of(file_at_load.data)
    /\ ids_seq(file.data) = ids_seq(file_at_load.data)

\* The articles the loop of the enrichment run has taken up: those of
\* to_process it is done with, and the one it was at when it raised.
TakenUp ==
    LET all == to_process_of(BatchOf(enrich_loaded))
        ahead == IF enrich_pc = "crashed" /\ to_process # <<>>
                 THEN Len(to_process) - 1 ELSE Len(to_process)
    IN  IF enrich_items = <<>> THEN <<>>   \* the run returned before its load
        ELSE SubSeq(all, 1, Len(all) - ahead)

\* C28: when an enrichment run has ended, every article its loop took up
\* had no mark when the run loaded the file and has exactly one of the two
\* marks in the period file, so that no later run takes it up again; the
\* items that had a mark are in the file as they were; and a run that found
\* no unmarked item has left the file as it was.
C28_EachArticleOnce ==
    enrich_pc \in {"returned", "crashed"} =>
        /\ \A k \in 1..Len(TakenUp) :
              /\ needs_processing(TakenUp[k])
              /\ \E i \in 1..Len(BatchOf(file)) :
                    /\ file.data[i].id = TakenUp[k].id
                    /\ ("ai_summary" \in DOMAIN file.data[i])
                          # ("ai_summary_failed" \in DOMAIN file.data[i])
        /\ \A i \in 1..Len(BatchOf(enrich_loaded)) :
              ~needs_processing(enrich_loaded.data[i]) =>
                  file.data[i] = enrich_loaded.data[i]
        /\ to_process_of(BatchOf(enrich_loaded)) = <<>> => file = enrich_loaded

(***************************************************************************)
(* Claims on the merges of the runs (Spec).                                 *)
(***************************************************************************)
\* Every field of the item but pub_date is the same, and pub_date is the
\* same instant: the item as json.dump writes it.
SameItemSaved(it, saved) ==
    /\ DOMAIN saved = DOMAIN it
    /\ \A f \in DOMAIN it \ {"pub_date"} : saved[f] = it[f]
    /\ saved.pub_date.at = it.pub_date.at

\* C29: (one run) a merge leaves every item of the batch as it is and in
\* its place; an item it appends carries an id the batch did not hold, was
\* delivered by the feed being processed and has that feed's category, so
\* an id delivered by several feeds is held with the fields of the first of
\* them in configuration order; every id the feeds of the run delivered is
\* held by the batch.  (later runs) the save writes every item as the batch
\* holds it, and a run starts from the items of the file it loaded, which
\* stay first in its batch, as they are.
C29_FirstWriterWins ==
    /\ [](/\ pc \in {"scrape", "save", "writing", "done"} =>
                /\ delivered \subseteq ids_of(existing_data)
                /\ PairwiseDistinctIds(existing_data)
                /\ file_at_load.kind = "json" =>
                        IsPrefix(file_at_load.data, existing_data)
          /\ pc = "done" =>
                /\ file.kind = "json"
                /\ Len(file.data) = Len(existing_data)
                /\ \A i \in 1..Len(existing_data) :
                        SameItemSaved(existing_data[i], file.data[i]))
    /\ [][runs' = runs =>
            /\ IsPrefix(existing_data, existing_data')
            /\ \A i \in (Len(existing_data) + 1)..Len(existing_data') :
                  /\ existing_data'[i].id \notin ids_of(existing_data)
                  /\ existing_data'[i].category = category_of(feed)
                  /\ \E k \in 1..Len(news_items') :
                        news_items'[k] = existing_data'[i]]_vars

\* In the second run the second feed has delivered, under its own category,
\* an id that the loaded file holds from the first feed: the batch and the
\* saved file hold the item of the first feed.
C29_Witness ==
    /\ pc = "done"
    /\ runs = 2
    /\ file_at_load.kind = "json"
    /\ \E k \in 1..Len(news_items) : \E i \in 1..Len(file_at_load.data) :
          /\ news_items[k].id = file_at_load.data[i].id
          /\ news_items[k].category = "cat2"
          /\ file_at_load.data[i].category = "cat1"
          /\ existing_data[i] = file_at_load.data[i]
          /\ file.data[i].category = "cat1"

(***************************************************************************)
(* Claims on evaluate_story_importance (SpecRank).                         *)
(***************************************************************************)
MaxLength == 60   \* list lengths the target is computed for

\* The item without the ordinal the ranker gave it.
WithoutSimpleId(it) == [f \in DOMAIN it \ {"simple_id"} |-> it[f]]

Ranked == rank_pc = "returned" /\ invocations = 1

\* The call returns the list it was given, and the oracle is not asked.
C14_ReturnsInput ==
    (rank_pc = "called" /\ Len(stories) <= target) =>
        /\ rank_pc' = "returned"
        /\ result'.exc = NoExc
        /\ result'.value = stories'
        /\ [i \in 1..Len(stories') |-> WithoutSimpleId(stories'[i])] = stories
        /\ invocations' = 0

\* C14: a call on a list not longer than the target (the empty list
\* included) returns that list, the same items in the same order (each
\* carries the ordinal the function gave it), and the oracle is never asked.
C14_NoOpBelowTarget ==
    /\ [][C14_ReturnsInput]_vars
    /\ []((rank_pc # "called" /\ Len(stories) <= target) =>
             /\ rank_pc = "returned"
             /\ invocations = 0
             /\ result = [exc |-> NoExc, value |-> stories])

\* A list of exactly target items (2 of 2) has been returned as it was.
C14_Witness ==
    /\ rank_pc = "returned"
    /\ invocations = 0
    /\ target = 2
    /\ Len(stories) = 2
    /\ stories[1].pub_date < stories[2].pub_date
    /\ result.value = stories

Clamp(x, lo, hi) == IF x < lo THEN lo ELSE IF x > hi THEN hi ELSE x

\* r is an integer nearest to n * pct / 100.
IsNearest(r, n, pct) ==
    LET diff == 100 * r - n * pct
    IN  2 * diff <= 100 /\ 2 * diff >= 0 - 100

\* C15: the target is round(len * percentage) clamped to
\* [min_stories, max_stories], which for the defaults lies in 7..14 for every
\* length; a call that returns, on the scored path or on the fallback path,
\* returns exactly min(len, target) items, each an item of the input and no
\* item twice.
C15_BoundedResultSize ==
    /\ \A n \in 0..MaxLength :
          LET t == target_stories(n, DefaultPercentage, DefaultMinStories,
                                  DefaultMaxStories)
          IN  /\ IsNearest(round(n, DefaultPercentage), n, DefaultPercentage)
              /\ t = Clamp(round(n, DefaultPercentage), DefaultMinStories,
                           DefaultMaxStories)
              /\ DefaultMinStories <= t /\ t <= DefaultMaxStories
    /\ IsNearest(round(Len(stories), percentage), Len(stories), percentage)
    /\ target = Clamp(round(Len(stories), percentage), min_stories, max_stories)
    /\ rank_pc = "returned" =>
          /\ Len(result.value) = Min(Len(stories), target)
          /\ \A i \in 1..Len(result.value) :
                \E j \in 1..Len(stories) : result.value[i] = stories[j]
          /\ \A i, j \in 1..Len(result.value) :
                i # j => result.value[i].simple_id # result.value[j].simple_id

\* Four stories were scored by the oracle and the two of the target came
\* back.
C15_Witness ==
    /\ Ranked
    /\ Len(stories) = 4
    /\ target = 2
    /\ DOMAIN importance_scores(response.lines) = 1..4
    /\ Len(result.value) = 2

\* A line `ordinal:score` with a score in 1..10.
ValidLine(l) == l.shape = "pair" /\ 1 <= l.score /\ l.score <= 10

\* The ordinals the answer has a valid line for, and the score it gives.
ScoredOrdinals ==
    {response.lines[k].idx : k \in {i \in 1..Len(response.lines) :
                                        ValidLine(response.lines[i])}}

GivenScore(ordinal) ==
    LET k == CHOOSE i \in 1..Len(response.lines) :
                 ValidLine(response.lines[i]) /\ response.lines[i].idx = ordinal
    IN  response.lines[k].score

InResult(x) == \E i \in 1..Len(result.value) : result.value[i] = x

\* x is not behind y in the order (score descending, then publication time
\* descending).
NotBehindByScore(x, y) ==
    \/ GivenScore(x.simple_id) > GivenScore(y.simple_id)
    \/ /\ GivenScore(x.simple_id) = GivenScore(y.simple_id)
       /\ x.pub_date >= y.pub_date

\* The oracle answered with a valid line for every item, and nothing else.
EveryItemScored ==
    /\ response.kind = "text"
    /\ \A k \in 1..Len(response.lines) : ValidLine(response.lines[k])
    /\ ScoredOrdinals = 1..Len(stories)

\* C16: when the list is longer than the target and the oracle gives every
\* item a valid score, the result is target items of the input, in
\* descending order of score and, for equal scores, of publication time,
\* and no item left out is ahead of an item of the result in that order.
C16_ScoredOrder ==
    (Ranked /\ EveryItemScored) =>
        /\ result.exc = NoExc
        /\ Len(result.value) = target
        /\ \A i \in 1..Len(result.value) :
              \E j \in 1..Len(stories) : result.value[i] = stories[j]
        /\ \A i, j \in 1..Len(result.value) :
              i < j => /\ result.value[i] # result.value[j]
                       /\ NotBehindByScore(result.value[i], result.value[j])
        /\ \A j \in 1..Len(stories) :
              ~InResult(stories[j]) =>
                  \A i \in 1..Len(result.value) :
                      NotBehindByScore(result.value[i], stories[j])

\* Of four stories the last two have the highest score and the later of the
\* two, last in the input, came back first; a story with a lower score and
\* the latest publication time was left out.
C16_Witness ==
    /\ Ranked
    /\ EveryItemScored
    /\ Len(stories) = 4
    /\ target = 2
    /\ GivenScore(1) = 1 /\ stories[1].pub_date = 2
    /\ GivenScore(3) = 10 /\ stories[3].pub_date = 1
    /\ GivenScore(4) = 10 /\ stories[4].pub_date = 2
    /\ result.value = <<stories[4], stories[3]>>

\* The oracle answered with a text that holds no line a score can be parsed
\* from (the empty text included).
NoScoreParsed ==
    /\ response.kind = "text"
    /\ \A k \in 1..Len(response.lines) :
          \/ response.lines[k].shape \in
                {"prose", "ordinals", "two colons", "not a number"}
          \/ response.lines[k].shape = "pair" /\ ~ValidLine(response.lines[k])

\* The result is the first items of the input by publication time
\* descending: t items of the input, in descending order of publication
\* time, none left out that is later than one of them.
IsDateDescendingCut(value, t) ==
    /\ Len(value) = t
    /\ \A i \in 1..Len(value) : \E j \in 1..Len(stories) : value[i] = stories[j]
    /\ \A i, j \in 1..Len(value) :
          i < j => value[i] # value[j] /\ value[i].pub_date >= value[j].pub_date
    /\ \A j \in 1..Len(stories) :
          (\A i \in 1..Len(value) : value[i] # stories[j]) =>
              \A i \in 1..Len(value) : value[i].pub_date >= stories[j].pub_date

\* C17: when the list is longer than the target and the oracle's answer is
\* empty or holds no score that can be parsed, the call raises nothing and
\* returns the input sorted by publication time descending, cut to target.
C17_FallbackOnUnusableAnswer ==
    (rank_pc \in {"returned", "raised"} /\ invocations = 1 /\ NoScoreParsed) =>
        /\ rank_pc = "returned"
        /\ result.exc = NoExc
        /\ IsDateDescendingCut(result.value, target)

\* The oracle answered with the empty text for four stories given oldest
\* first; the two latest came back.
C17_Witness ==
    /\ Ranked
    /\ response = OracleSays(<<>>)
    /\ Len(stories) = 4
    /\ target = 2
    /\ stories[1].pub_date = 1 /\ stories[2].pub_date = 1
    /\ result.value = <<stories[3], stories[4]>>

\* C18: when the list is longer than the target and model.invoke raises, the
\* call raises nothing and returns the list it returns for an empty answer on
\* the same input: the date-descending cut to target.
C18_OracleExceptionFallsBack ==
    (invocations = 1 /\ response = OracleRaises) =>
        /\ rank_pc = "returned"
        /\ result = rank_with(stories, OracleSays(<<>>), target)
        /\ IsDateDescendingCut(result.value, target)

\* The oracle answered with one line that is a comma-separated list of
\* ordinals.
OrdinalsAnswered ==
    /\ response.kind = "text"
    /\ Len(response.lines) = 1
    /\ response.lines[1].shape = "ordinals"

\* C19: when the list is longer than the target and the oracle answers with
\* an ordered list of ordinals, the result starts with the items those
\* ordinals name, in the order of the list.
C19_OrdinalListAccepted ==
    (Ranked /\ OrdinalsAnswered) =>
        LET o == response.lines[1].ordinals
        IN  /\ Len(result.value) >= Min(Len(o), target)
            /\ \A i \in 1..Min(Len(o), target) : result.value[i] = stories[o[i]]

\* The items the answer has no valid score for, in input order.
NotScored ==
    SelectSeq(stories, LAMBDA x : x.simple_id \notin ScoredOrdinals)

\* C20: when the answer has valid scores for at least one and fewer than
\* target items, the result is those items in score order followed by the
\* first of the other items, in their input order, up to target items.
C20_PaddedInInputOrder ==
    (/\ Ranked
     /\ response.kind = "text"
     /\ \A k \in 1..Len(response.lines) : response.lines[k].shape = "pair"
     /\ ScoredOrdinals # {}
     /\ ScoredOrdinals \subseteq 1..Len(stories)
     /\ Cardinality(ScoredOrdinals) < target) =>
        LET k == Cardinality(ScoredOrdinals)
        IN  /\ Len(result.value) = target
            /\ \A i \in 1..k : result.value[i].simple_id \in ScoredOrdinals
            /\ \A i, j \in 1..k :
                  i < j => NotBehindByScore(result.value[i], result.value[j])
            /\ SubSeq(result.value, k + 1, target) =
                  SubSeq(NotScored, 1, target - k)

(***************************************************************************)
(* Claims on deduplicate_news_items (SpecDedup).                           *)
(***************************************************************************)
InOutput(it) == \E k \in 1..Len(unique_news) : unique_news[k] = it

\* Item i of the input comes before item j in richness order: it is richer,
\* or as rich and earlier in the input.
Ahead(i, j) ==
    \/ richness(dedup_items[i]) > richness(dedup_items[j])
    \/ (richness(dedup_items[i]) = richness(dedup_items[j]) /\ i < j)

TitlesMatch(i, j) ==
    i # j /\ {dedup_items[i].title, dedup_items[j].title} \in similar

\* The two signals as the call was given them: the lexical one, and the
\* semantic one with the flag on.
Matches(a, b) ==
    \/ {a.title, b.title} \in similar
    \/ (use_semantic /\ {a.title, b.title} \in close)

\* C21 as stated: of every two items of the input whose titles match, the
\* richer one (the earlier one for equal richness) is in the output and the
\* other one is not.
C21_RicherOfEveryPairKept ==
    dedup_pc = "returned" =>
        \A i, j \in 1..Len(dedup_items) :
            (TitlesMatch(i, j) /\ Ahead(i, j)) =>
                (InOutput(dedup_items[i]) /\ ~InOutput(dedup_items[j]))

\* C21 amended: of two items whose titles match, never both are in the
\* output; when the richer one (the earlier one for equal richness, an
\* absent or non-textual ai_summary counting 0) is in the output the other
\* is not, and the richer one is out of the output only when it matches an
\* item that is ahead of it and in the output; of a list of two matching
\* items the output is the richer one alone.
C21_RicherKeptUnlessDropped ==
    dedup_pc = "returned" =>
        /\ \A i, j \in 1..Len(dedup_items) :
             (TitlesMatch(i, j) /\ Ahead(i, j)) =>
                /\ ~(InOutput(dedup_items[i]) /\ InOutput(dedup_items[j]))
                /\ (~InOutput(dedup_items[i]) =>
                        \E k \in 1..Len(dedup_items) :
                            /\ Ahead(k, i)
                            /\ InOutput(dedup_items[k])
                            /\ Matches(dedup_items[k], dedup_items[i]))
        /\ (Len(dedup_items) = 2 /\ TitlesMatch(1, 2)) =>
                unique_news = <<dedup_items[IF Ahead(1, 2) THEN 1 ELSE 2]>>

\* Of a matching pair the richer item, later in the input, is kept and the
\* other, whose ai_summary is not a text, is dropped.
C21_Witness ==
    /\ dedup_pc = "returned"
    /\ \E i, j \in 1..Len(dedup_items) :
         /\ TitlesMatch(i, j)
         /\ j < i
         /\ richness(dedup_items[i]) > richness(dedup_items[j])
         /\ "ai_summary" \in DOMAIN dedup_items[j]
         /\ dedup_items[j].ai_summary = None
         /\ InOutput(dedup_items[i])
         /\ ~InOutput(dedup_items[j])

\* C22: deduplicate_news_items applied to its own output returns that
\* output, the same items in the same order.
C22_Idempotent ==
    dedup_pc = "returned_again" => unique_news = prev_unique

\* The first call dropped an item and kept two of equal richness.
C22_Witness ==
    /\ dedup_pc = "returned_again"
    /\ Len(prev_unique) < Len(dedup_items)
    /\ Len(unique_news) = 2
    /\ richness(unique_news[1]) = richness(unique_news[2])

\* The position of an item in the richness-sorted input.
Rank(it) ==
    LET sorted == sorted_by_richness(dedup_items)
    IN  CHOOSE k \in 1..Len(sorted) : sorted[k] = it

\* C23: after a call, the output is the richness-sorted input without the
\* dropped items; an item is dropped if and only if it matches (lexical
\* signal, or semantic signal with the flag on) an item of the output that
\* precedes it in richness order, so no item of the output matches an
\* earlier one; and with the flag off embed_query was never called.
C23_DropRule ==
    dedup_pc = "returned" =>
        LET sorted == sorted_by_richness(dedup_items)
        IN  /\ unique_news = SelectSeq(sorted, InOutput)
            /\ \A k \in 1..Len(sorted) :
                 ~InOutput(sorted[k]) <=>
                    \E h \in 1..(k - 1) :
                        InOutput(sorted[h]) /\ Matches(sorted[h], sorted[k])
            /\ \A a, b \in 1..Len(unique_news) :
                 a < b => ~Matches(unique_news[a], unique_news[b])
            /\ (~use_semantic => embed_calls = 0)

\* With the flag on an item is dropped by the semantic signal alone; the
\* pair of the same kind that follows a dropped item is kept.
C23_Witness ==
    /\ dedup_pc = "returned"
    /\ use_semantic
    /\ embed_calls = 3
    /\ Len(dedup_items) = 3
    /\ Len(unique_news) = 2
    /\ similar = {}
    /\ Cardinality(close) = 2

(***************************************************************************)
(* Claims on the digest run (SpecDigest).                                  *)
(***************************************************************************)
Summarized == {summaries_by_category[k] : k \in 1..Len(summaries_by_category)}

BatchCategories == {folder.categories[k].category : k \in 1..Len(folder.categories)}

\* C24: when generate_summaries_by_category has returned and the generation
\* oracle failed in generate_summary for a category, the run has not raised,
\* that category has no summary, and every other category of the batch was
\* ranked and summarized: it has a summary, or its own summarization failed.
C24_FailureDoesNotStopOthers ==
    digest_pc = "email" =>
        \A g \in gave_up :
            g.at = "generate_summary" =>
                /\ digest_error = NoExc
                /\ g.category \notin Summarized
                /\ \A c \in BatchCategories \ {g.category} :
                     \/ c \in Summarized
                     \/ \E h \in gave_up : h.category = c

\* C25: while one of the five settings (sender name, sender address,
\* recipient, mail domain, API key) is absent, no batch is read, no oracle
\* is called and no summary is generated.
C25_MissingSettingFatalAtStartup ==
    Settings \ environ # {} =>
        /\ batch_reads = 0
        /\ oracle_calls = 0
        /\ summaries_by_category = <<>>

(***************************************************************************)
(* Claims on two ingestion runs at the same time (SpecRace).               *)
(***************************************************************************)
\* Both runs loaded the file before either of them began to save.
BothLoadedBeforeSaves ==
    /\ \A p \in RaceRuns : \E k \in 1..Len(race_log) : race_log[k] = <<"load", p>>
    /\ \A i, j \in 1..Len(race_log) :
          (race_log[i][1] = "load" /\ race_log[j][1] # "load") => i < j

\* C30: when two runs that both loaded the period file before either saved
\* have both saved, the file holds exactly the batch of the run whose save
\* ended last, no id that only the other run holds is in it, and no two of
\* its items share an id.
C30_LastWriterWins ==
    (BothLoadedBeforeSaves /\ \A p \in RaceRuns : race_pc[p] = "done") =>
        LET last == race_log[Len(race_log)][2]
        IN  /\ file = File("json", json_roundtrip(race_data[last]))
            /\ \A p \in RaceRuns \ {last} :
                  \A x \in ids_of(race_data[p]) \ ids_of(race_data[last]) :
                      x \notin ids_of(BatchOf(file))
            /\ PairwiseDistinctIds(BatchOf(file))

====
